---- MODULE Spec2Model ----
(***************************************************************************)
(* The in-memory object store of bmd (package memdb) and the database      *)
(* contract it implements (package database).                              *)
(*                                                                         *)
(* One MemDb instance is modelled.  Every public method takes db.Lock()    *)
(* on entry and releases it on return, so a method is one atomic action;   *)
(* the section on goroutines shows the lock and the steps under it.  The   *)
(* iteration order of a Go map is unspecified: every loop over a map is    *)
(* modelled by a choice over all orders.  Byte slices that share a backing *)
(* array, and the driver list of package database, have their own          *)
(* sections.                                                               *)
(***************************************************************************)
EXTENDS Integers, Sequences, FiniteSets, TLC

\* --------------------------------------------------------------------------
\* Bounds of the exploration
\* --------------------------------------------------------------------------
\* successful InsertObject calls explored in one run
MaxInserts == 2
\* largest `count' argument passed to FetchObjectsFromCounter
MaxCount == 2
\* batches one paged backlog transfer may fetch
MaxPageCalls == 3
\* instances a caller holds besides the one it calls
MaxInstances == 2

\* --------------------------------------------------------------------------
\* Object types, errors
\* --------------------------------------------------------------------------
KnownTypes == {"GetPubKey", "PubKey", "Msg", "Broadcast"}
UnknownTypes == {"Unknown4"}
ObjectTypes == KnownTypes \cup UnknownTypes

NoError == "nil"
ErrDbClosed == "database is closed"
ErrDuplicateObject == "duplicate insert attempted"
ErrNotImplemented == "method has not yet been implemented"
ErrNonexistentObject == "object doesn't exist in database"
ErrDbUnknownType == "non-existent database type"
ErrDecode == "wire decode error"
panicMessage == "ALIEN INVASION IN PROGRESS. (bug)"

\* --------------------------------------------------------------------------
\* Object bytes.  An object is the content of its byte slice: whether the
\* header decodes, the header fields the store reads (type, expiration in
\* hours), the pubkey fields InsertObject reads, and a body that tells
\* otherwise equal objects apart.
\* --------------------------------------------------------------------------
Obj(hdrOk, objType, expires, body) ==
    [hdrOk |-> hdrOk, objType |-> objType, expires |-> expires, body |-> body,
     decodeOk |-> TRUE, version |-> "none", keysOk |-> TRUE,
     addrTag |-> "", tag |-> ""]

PubKeyObj(expires, body, decodeOk, version, keysOk, addrTag, tag) ==
    [hdrOk |-> TRUE, objType |-> "PubKey", expires |-> expires, body |-> body,
     decodeOk |-> decodeOk, version |-> version, keysOk |-> keysOk,
     addrTag |-> addrTag, tag |-> tag]

ValidData ==
    { Obj(TRUE, "Msg", 2, 1),
      Obj(TRUE, "Msg", 9, 2),
      Obj(TRUE, "Broadcast", 9, 1),
      Obj(TRUE, "Unknown4", 2, 1),
      PubKeyObj(2, 1, TRUE, "encrypted", TRUE, "", "T1") }

InvalidData ==
    { Obj(FALSE, "Msg", 9, 3),
      PubKeyObj(9, 4, TRUE, "simple", FALSE, "T2", "") }

Data == ValidData \cup InvalidData

\* values of time.Now() seen by RemoveExpiredObjects, in hours
Nows == {5, 6, 13}

Tags == {"T1", "T2"}

\* wire.DecodeMsgObjectHeader: the error and the header fields the store uses
DecodeMsgObjectHeader(data) ==
    [err |-> IF data.hdrOk THEN NoError ELSE ErrDecode,
     expiresTime |-> data.expires,
     objType |-> data.objType]

\* bmutil.CalcInventoryHash followed by wire.NewShaHash: a digest of the
\* whole byte slice, equal for equal bytes and different for different bytes
CalcInventoryHash(data) == <<"sha", data>>

\* the hashes, counters and counts the calls are made with
Hashes == { CalcInventoryHash(d) : d \in Data }
Counters == 0..MaxInserts
Counts == 0..MaxCount

\* the objects, hashes and types of the runs that study the counter fetches
FetchData == { d \in ValidData : d.objType \in {"Msg", "Unknown4"} }
FetchHashes == { CalcInventoryHash(d) : d \in FetchData }
FetchTypes == {"Msg", "Unknown4"}

\* the objects and the type of the runs that study the paged backlog
PageData == { d \in ValidData : d.objType = "Msg" }
PageHashes == { CalcInventoryHash(d) : d \in PageData }
PageCounts == 1..MaxCount

\* --------------------------------------------------------------------------
\* State
\* --------------------------------------------------------------------------
VARIABLES
    objectsByHash,      \* map[wire.ShaHash][]byte
    pubKeyByTag,        \* map[wire.ShaHash][]byte, keyed by tag
    msgCounter,         \* *counter
    broadcastCounter,   \* *counter
    pubKeyCounter,      \* *counter
    getPubKeyCounter,   \* *counter
    unknownObjCounter,  \* map[wire.ObjectType]*counter
    closed,             \* bool
    ret,                \* the last call: method, arguments, returned values
    inserted,           \* history: successful InsertObject calls per type
    pager,              \* a caller paging through one type's objects
    mu,                 \* the sync.Mutex embedded in MemDb: its holder
    gor,                \* the goroutines calling the store concurrently
    slices,             \* the backing array of each stored []byte
    buf,                \* a []byte in the hands of a caller
    driverList,         \* []DriverDB of package database
    registered,         \* history: the AddDBDriver calls, by name
    subscription,       \* the handleSubscribe call of an RPC client
    workers,            \* the goroutines started by sendOldObjects
    client,             \* the rpc2.Client: open, event handlers, calls received
    pending,            \* the new-object event that is about to be emitted
    clientState,        \* client.State: rpcStateIsAuthenticated, rpcStateIsAdmin
    relay,              \* the inventory hashes given to handleRelayInvMsg
    reply,              \* the last RPC request and what its handler answered
    instances           \* the MemDb instances made earlier, besides the one
                        \* the methods are called on

counterVars == <<msgCounter, broadcastCounter, pubKeyCounter,
                 getPubKeyCounter, unknownObjCounter>>
dbVars == <<objectsByHash, pubKeyByTag, counterVars, closed>>
lockVars == <<mu, gor>>
bufVars == <<slices, buf>>
regVars == <<driverList, registered>>
rpcVars == <<subscription, workers, client, pending>>
srvVars == <<clientState, relay, reply>>
envVars == <<pager, lockVars, bufVars, regVars, rpcVars, srvVars, instances>>
\* what the paging caller, the goroutines, the buffer owner, the driver
\* registry and the RPC server leave alone
notPage == <<lockVars, bufVars, regVars, rpcVars, srvVars, instances>>
notLock == <<pager, bufVars, regVars, rpcVars, srvVars, instances>>
notBuf == <<pager, lockVars, regVars, rpcVars, srvVars, instances>>
notReg == <<pager, lockVars, bufVars, rpcVars, srvVars, instances>>
notRpc == <<pager, lockVars, bufVars, regVars, srvVars, instances>>
notSrv == <<pager, lockVars, bufVars, regVars, rpcVars, instances>>
notInst == <<pager, lockVars, bufVars, regVars, rpcVars, srvVars>>
vars == <<dbVars, ret, inserted, envVars>>

\* a nil *counter, and the counter newMemDb and getCounterMap allocate
NilCounter == [nil |-> TRUE]
NewCounter == [ByCounter |-> <<>>, CounterPos |-> 0]

\* a nil map holds nothing and reads like an empty map
NilMap == <<>>
EmptyMap == <<>>

\* the record of a call; a method fills in its arguments and results.  `keys'
\* (the counters of the objects a counter fetch returned) and the `hash' of
\* RemoveObjectByCounter (the hash the counter resolved to) are not returned
\* to the caller; they are kept to state the properties.
Call(op) ==
    [op |-> op, objType |-> "", hash |-> <<>>, counter |-> 0, count |-> 0,
     data |-> <<>>, tag |-> "", now |-> 0, err |-> NoError,
     exists |-> FALSE, obj |-> <<>>, objs |-> <<>>, keys |-> <<>>, n |-> 0,
     dbtype |-> "", args |-> <<>>, db |-> <<>>, names |-> <<>>]

\* a panic aborts the process: no method runs after it
Halted == ret.err = panicMessage

\* no backlog transfer has started
IdlePager ==
    [active |-> FALSE, objType |-> "", count |-> 0, from |-> 0, calls |-> 0,
     got |-> <<>>, cuts |-> {}, done |-> FALSE, start |-> NewCounter]

\* the goroutines that share the store, and the value of an unlocked mutex
Goroutines == {"g1", "g2"}
NoHolder == "unlocked"

\* a goroutine outside the store: where it stands in its call (pc), the call
\* it makes, and the indices as they were when it took the lock
IdleGoroutine == [pc |-> "idle", call |-> Call("none"), snap |-> <<>>]

\* backing arrays have addresses: the arrays InsertObject allocates are
\* numbered from 1, an array the caller allocated has address CallerArray
CallerArray == 0
NoSlices == [byHash |-> <<>>, byTag |-> <<>>]

\* the caller holds no buffer; a buffer is the address of its backing array,
\* its bytes, and the hash under which the caller inserted it
NoBuffer == [held |-> FALSE, addr |-> CallerArray, bytes |-> <<>>,
             insertedAs |-> <<>>, fetched |-> FALSE]

\* no AddDBDriver call was made: `first' maps a name to the instance of the
\* first call made with it, `order' lists the names by their first call
\* the state of a client that has connected: no key is set
NewState == [isAuthenticated |-> FALSE, isAdmin |-> FALSE]

\* an RPC request before its handler has filled in the answer
Request(method, args) ==
    [method |-> method, args |-> args, err |-> NoError, success |-> FALSE,
     counter |-> 0]

\* no handleSubscribe call yet
NoSubscription ==
    [pc |-> "idle", objType |-> "", fromCounter |-> 0, cursor |-> 0,
     batch |-> 0, size |-> 0, lastCount |-> 0, failed |-> {}, err |-> NoError]

\* a connected client without event handlers
NewClient == [open |-> TRUE, handlers |-> {}, received |-> {}]

NoneRegistered == [first |-> <<>>, order |-> <<>>]

TotalInserted ==
    inserted["GetPubKey"] + inserted["PubKey"] + inserted["Msg"]
    + inserted["Broadcast"] + inserted["Unknown4"]

\* --------------------------------------------------------------------------
\* newMemDb
\* --------------------------------------------------------------------------
Init ==
    /\ objectsByHash = EmptyMap
    /\ pubKeyByTag = EmptyMap
    /\ msgCounter = NewCounter
    /\ broadcastCounter = NewCounter
    /\ pubKeyCounter = NewCounter
    /\ getPubKeyCounter = NewCounter
    /\ unknownObjCounter = EmptyMap
    /\ closed = FALSE
    /\ ret = Call("newMemDb")
    /\ inserted = [t \in ObjectTypes |-> 0]
    /\ pager = IdlePager
    /\ mu = NoHolder
    /\ gor = [g \in Goroutines |-> IdleGoroutine]
    /\ slices = NoSlices
    /\ buf = NoBuffer
    /\ driverList = <<>>
    /\ registered = NoneRegistered
    /\ subscription = NoSubscription
    /\ workers = <<>>
    /\ client = NewClient
    /\ pending = <<>>
    /\ clientState = NewState
    /\ relay = <<>>
    /\ reply = Request("none", <<>>)
    /\ instances = <<>>

\* --------------------------------------------------------------------------
\* Helpers
\* --------------------------------------------------------------------------
\* getCounterMap: the counter of objType; for an unknown type that has no
\* counter yet, the new counter it allocates (SetCounters stores it)
\* getCounterMap whose default case returns nil
getCounterMapKnownOnly(objType) ==
    CASE objType = "Broadcast" -> broadcastCounter
      [] objType = "Msg" -> msgCounter
      [] objType = "PubKey" -> pubKeyCounter
      [] objType = "GetPubKey" -> getPubKeyCounter
      [] OTHER -> NilCounter

getCounterMap(objType) ==
    CASE objType = "Broadcast" -> broadcastCounter
      [] objType = "Msg" -> msgCounter
      [] objType = "PubKey" -> pubKeyCounter
      [] objType = "GetPubKey" -> getPubKeyCounter
      [] OTHER -> IF objType \in DOMAIN unknownObjCounter
                  THEN unknownObjCounter[objType]
                  ELSE NewCounter

\* counters of a store whose msgCounter and broadcastCounter fields hold the
\* same pointer
SetCountersSharedPointer(f) ==
    /\ msgCounter' = IF "Msg" \in DOMAIN f THEN f["Msg"]
                     ELSE IF "Broadcast" \in DOMAIN f THEN f["Broadcast"]
                     ELSE msgCounter
    /\ broadcastCounter' = msgCounter'
    /\ pubKeyCounter' =
           IF "PubKey" \in DOMAIN f THEN f["PubKey"] ELSE pubKeyCounter
    /\ getPubKeyCounter' =
           IF "GetPubKey" \in DOMAIN f THEN f["GetPubKey"] ELSE getPubKeyCounter
    /\ unknownObjCounter' =
           [t \in (DOMAIN unknownObjCounter) \cup (DOMAIN f \ KnownTypes) |->
               IF t \in DOMAIN f THEN f[t] ELSE unknownObjCounter[t]]

\* the counters after the calls of getCounterMap and the writes through the
\* pointers it returned: f maps each type touched to its counter
SetCounters(f) ==
    /\ msgCounter' = IF "Msg" \in DOMAIN f THEN f["Msg"] ELSE msgCounter
    /\ broadcastCounter' =
           IF "Broadcast" \in DOMAIN f THEN f["Broadcast"] ELSE broadcastCounter
    /\ pubKeyCounter' =
           IF "PubKey" \in DOMAIN f THEN f["PubKey"] ELSE pubKeyCounter
    /\ getPubKeyCounter' =
           IF "GetPubKey" \in DOMAIN f THEN f["GetPubKey"] ELSE getPubKeyCounter
    /\ unknownObjCounter' =
           [t \in (DOMAIN unknownObjCounter) \cup (DOMAIN f \ KnownTypes) |->
               IF t \in DOMAIN f THEN f[t] ELSE unknownObjCounter[t]]

\* counter.Insert that numbers the new entry after the entries present
InsertAfterPresent(cmap, hash) ==
    [ByCounter |-> ((Cardinality(DOMAIN cmap.ByCounter) + 1) :> hash)
                   @@ cmap.ByCounter,
     CounterPos |-> Cardinality(DOMAIN cmap.ByCounter) + 1]

\* counter.Insert that advances the position without filing the hash
InsertPositionOnly(cmap, hash) ==
    [ByCounter |-> cmap.ByCounter, CounterPos |-> cmap.CounterPos + 1]

\* counter.Insert
Insert(cmap, hash) ==
    [ByCounter |-> ((cmap.CounterPos + 1) :> hash) @@ cmap.ByCounter,
     CounterPos |-> cmap.CounterPos + 1]

\* delete(m, k)
Delete(m, k) == [x \in (DOMAIN m) \ {k} |-> m[x]]

\* fetchObjectByHash
fetchObjectByHash(hash) ==
    IF hash \in DOMAIN objectsByHash
    THEN [obj |-> <<objectsByHash[hash]>>, err |-> NoError]
    ELSE [obj |-> <<>>, err |-> ErrNonexistentObject]

\* --------------------------------------------------------------------------
\* Close, RollbackClose, Sync
\* --------------------------------------------------------------------------
\* Close that leaves the hash index in place
CloseKeepsObjects(op) ==
    IF closed
    THEN /\ ret' = [Call(op) EXCEPT !.err = ErrDbClosed]
         /\ UNCHANGED <<dbVars, inserted>>
    ELSE /\ pubKeyByTag' = NilMap
         /\ msgCounter' = NilCounter
         /\ broadcastCounter' = NilCounter
         /\ pubKeyCounter' = NilCounter
         /\ getPubKeyCounter' = NilCounter
         /\ unknownObjCounter' = NilMap
         /\ closed' = TRUE
         /\ ret' = Call(op)
         /\ UNCHANGED <<objectsByHash, inserted>>

CloseBody(op) ==
    IF closed
    THEN /\ ret' = [Call(op) EXCEPT !.err = ErrDbClosed]
         /\ UNCHANGED <<dbVars, inserted>>
    ELSE /\ objectsByHash' = NilMap
         /\ pubKeyByTag' = NilMap
         /\ msgCounter' = NilCounter
         /\ broadcastCounter' = NilCounter
         /\ pubKeyCounter' = NilCounter
         /\ getPubKeyCounter' = NilCounter
         /\ unknownObjCounter' = NilMap
         /\ closed' = TRUE
         /\ ret' = Call(op)
         /\ UNCHANGED inserted

Close ==
    /\ ~Halted
    /\ CloseBody("Close")

\* RollbackClose that returns nil without calling Close
RollbackCloseKeepsOpen ==
    /\ ~Halted
    /\ ret' = Call("RollbackClose")
    /\ UNCHANGED <<dbVars, inserted>>

RollbackClose ==
    /\ ~Halted
    /\ CloseBody("RollbackClose")

Sync ==
    /\ ~Halted
    /\ ret' = [Call("Sync") EXCEPT !.err = IF closed THEN ErrDbClosed ELSE NoError]
    /\ UNCHANGED <<dbVars, inserted>>

\* --------------------------------------------------------------------------
\* ExistsObject, FetchObjectByHash, FetchObjectByCounter
\* --------------------------------------------------------------------------
ExistsObject(hash) ==
    /\ ~Halted
    /\ ret' = IF closed
              THEN [Call("ExistsObject") EXCEPT !.hash = <<hash>>,
                                                !.err = ErrDbClosed]
              ELSE [Call("ExistsObject") EXCEPT
                        !.hash = <<hash>>,
                        !.exists = (hash \in DOMAIN objectsByHash)]
    /\ UNCHANGED <<dbVars, inserted>>

FetchObjectByHash(hash) ==
    /\ ~Halted
    /\ ret' = IF closed
              THEN [Call("FetchObjectByHash") EXCEPT !.hash = <<hash>>,
                                                     !.err = ErrDbClosed]
              ELSE [Call("FetchObjectByHash") EXCEPT
                        !.hash = <<hash>>,
                        !.obj = fetchObjectByHash(hash).obj,
                        !.err = fetchObjectByHash(hash).err]
    /\ UNCHANGED <<dbVars, inserted>>

FetchObjectByCounter(objType, counter) ==
    LET call == [Call("FetchObjectByCounter") EXCEPT !.objType = objType,
                                                     !.counter = counter]
        counterMap == getCounterMap(objType)
    IN
    /\ ~Halted
    /\ IF closed
       THEN /\ ret' = [call EXCEPT !.err = ErrDbClosed]
            /\ UNCHANGED counterVars
       ELSE /\ SetCounters(objType :> counterMap)
            /\ IF counterMap = NilCounter
               THEN ret' = [call EXCEPT !.err = ErrNotImplemented]
               ELSE IF counter \notin DOMAIN counterMap.ByCounter
               THEN ret' = [call EXCEPT !.err = ErrNonexistentObject]
               ELSE LET r == fetchObjectByHash(counterMap.ByCounter[counter])
                    IN  IF r.err # NoError
                        THEN ret' = [call EXCEPT !.err = panicMessage]
                        ELSE ret' = [call EXCEPT !.obj = r.obj]
    /\ UNCHANGED <<objectsByHash, pubKeyByTag, closed, inserted>>

\* --------------------------------------------------------------------------
\* FetchObjectsFromCounter
\* --------------------------------------------------------------------------
\* the orders in which `for k := range m' can visit the keys of m
RangeOrders(m) ==
    { o \in [1..Cardinality(DOMAIN m) -> DOMAIN m] :
        \A i, j \in DOMAIN o : i # j => o[i] # o[j] }

\* the loop that makes the slice of keys to retrieve, from position i of the
\* visiting order, with the keys appended so far
RECURSIVE CollectKeys(_, _, _, _, _)
CollectKeys(order, i, counter, count, keys) ==
    IF i > Len(order) THEN keys
    ELSE IF order[i] < counter
         THEN CollectKeys(order, i + 1, counter, count, keys)
         ELSE IF Len(keys) >= count
              THEN keys
              ELSE CollectKeys(order, i + 1, counter, count,
                               Append(keys, order[i]))

\* sort.Sort(counters(keys)): ascending, by insertion
RECURSIVE SortInsert(_, _)
SortInsert(sorted, k) ==
    IF sorted = <<>> THEN <<k>>
    ELSE IF k < Head(sorted)
         THEN <<k>> \o sorted
         ELSE <<Head(sorted)>> \o SortInsert(Tail(sorted), k)

\* sort.Sort left out: the keys stay in the order the map was visited
SortCountersUnsorted(keys) == keys

RECURSIVE SortCounters(_)
SortCounters(keys) ==
    IF keys = <<>> THEN <<>>
    ELSE SortInsert(SortCounters(Tail(keys)), Head(keys))

\* the loop that fetches the objects of the sorted keys; a key whose hash is
\* not in objectsByHash panics
RECURSIVE FetchKeys(_, _, _)
FetchKeys(byCounter, keys, objects) ==
    IF keys = <<>> THEN [objs |-> objects, err |-> NoError]
    ELSE LET r == fetchObjectByHash(byCounter[Head(keys)])
         IN  IF r.err = ErrNonexistentObject
             THEN [objs |-> <<>>, err |-> panicMessage]
             ELSE FetchKeys(byCounter, Tail(keys), objects \o r.obj)

\* the values FetchObjectsFromCounter can return when the map is visited in
\* the given order
FetchFromCounterResult(counterMap, order, counter, count) ==
    LET keys == SortCounters(CollectKeys(order, 1, counter, count, <<>>))
        newCounter == IF Len(keys) = 0 THEN 0 ELSE keys[Len(keys)]
        f == FetchKeys(counterMap.ByCounter, keys, <<>>)
    IN  IF f.err # NoError
        THEN [objs |-> <<>>, keys |-> <<>>, n |-> 0, err |-> f.err]
        ELSE [objs |-> f.objs, keys |-> keys, n |-> newCounter, err |-> NoError]

FetchObjectsFromCounter(objType, counter, count) ==
    LET call == [Call("FetchObjectsFromCounter") EXCEPT !.objType = objType,
                                                        !.counter = counter,
                                                        !.count = count]
        counterMap == getCounterMap(objType)
    IN
    /\ ~Halted
    /\ IF closed
       THEN /\ ret' = [call EXCEPT !.err = ErrDbClosed]
            /\ UNCHANGED counterVars
       ELSE /\ SetCounters(objType :> counterMap)
            /\ IF counterMap = NilCounter
               THEN ret' = [call EXCEPT !.err = ErrNotImplemented]
               ELSE \E order \in RangeOrders(counterMap.ByCounter) :
                      LET r == FetchFromCounterResult(counterMap, order,
                                                      counter, count)
                      IN  ret' = [call EXCEPT !.objs = r.objs, !.keys = r.keys,
                                              !.n = r.n, !.err = r.err]
    /\ UNCHANGED <<objectsByHash, pubKeyByTag, closed, inserted>>

\* --------------------------------------------------------------------------
\* FetchIdentityByAddress, ExistsGetPubKey, FetchRandomObject
\* --------------------------------------------------------------------------
FetchIdentityByAddress ==
    /\ ~Halted
    /\ ret' = [Call("FetchIdentityByAddress") EXCEPT !.err = ErrNotImplemented]
    /\ UNCHANGED <<dbVars, inserted>>

ExistsGetPubKey ==
    /\ ~Halted
    /\ ret' = [Call("ExistsGetPubKey") EXCEPT !.err = ErrNotImplemented]
    /\ UNCHANGED <<dbVars, inserted>>

FetchRandomObject ==
    /\ ~Halted
    /\ ret' = [Call("FetchRandomObject") EXCEPT !.err = ErrNotImplemented]
    /\ UNCHANGED <<dbVars, inserted>>

\* --------------------------------------------------------------------------
\* GetCounter
\* --------------------------------------------------------------------------
\* getCounterRef that reports the highest counter still present
getCounterRefHighestPresent(counterMap) ==
    IF counterMap = NilCounter
    THEN [n |-> 0, err |-> panicMessage]
    ELSE [n |-> IF DOMAIN counterMap.ByCounter = {} THEN 0
                ELSE CHOOSE k \in DOMAIN counterMap.ByCounter :
                         \A j \in DOMAIN counterMap.ByCounter : j <= k,
          err |-> NoError]

\* getCounterRef: the position the returned pointer refers to
getCounterRef(counterMap) ==
    IF counterMap = NilCounter
    THEN [n |-> 0, err |-> panicMessage]
    ELSE [n |-> counterMap.CounterPos, err |-> NoError]

GetCounter(objType) ==
    LET call == [Call("GetCounter") EXCEPT !.objType = objType]
        counterMap == getCounterMap(objType)
    IN
    /\ ~Halted
    /\ IF closed
       THEN /\ ret' = [call EXCEPT !.err = ErrDbClosed]
            /\ UNCHANGED counterVars
       ELSE /\ SetCounters(objType :> counterMap)
            /\ ret' = [call EXCEPT !.n = getCounterRef(counterMap).n,
                                   !.err = getCounterRef(counterMap).err]
    /\ UNCHANGED <<objectsByHash, pubKeyByTag, closed, inserted>>

\* --------------------------------------------------------------------------
\* InsertObject
\* --------------------------------------------------------------------------
\* a tag derivation that drops the error of identity.IdentityFromPubKeyMsg
PubKeyTagIgnoresKeys(data) ==
    IF ~data.decodeOk THEN [err |-> ErrDecode, tag |-> ""]
    ELSE [err |-> NoError,
          tag |-> IF data.version = "encrypted" THEN data.tag ELSE data.addrTag]

\* msg.Decode of a pubkey, identity.IdentityFromPubKeyMsg and wire.NewShaHash
\* of the tag: the error, and the tag under which the pubkey is filed
PubKeyTag(data) ==
    IF ~data.decodeOk THEN [err |-> ErrDecode, tag |-> ""]
    ELSE LET tag ==
               CASE data.version \in {"simple", "extended"} ->
                        IF data.keysOk THEN <<data.addrTag>> ELSE <<>>
                 [] data.version = "encrypted" -> <<data.tag>>
                 [] OTHER -> <<"">>
         IN  IF tag = <<>> THEN [err |-> ErrDecode, tag |-> ""]
             ELSE IF tag[1] = "" THEN [err |-> ErrDecode, tag |-> ""]
             ELSE [err |-> NoError, tag |-> tag[1]]

\* the hash index write skipped for a pubkey, which is filed by tag only
StoreObjectUnlessPubKey(hash, dataInsert) ==
    IF dataInsert.objType = "PubKey" THEN objectsByHash
    ELSE (hash :> dataInsert) @@ objectsByHash

\* db.objectsByHash[*hash] = dataInsert
StoreObject(hash, dataInsert) == (hash :> dataInsert) @@ objectsByHash

\* a tag index that keeps the public key it already has for the tag
StorePubKeyFirstWins(tagH, dataInsert) ==
    IF tagH \in DOMAIN pubKeyByTag
    THEN pubKeyByTag
    ELSE (tagH :> dataInsert) @@ pubKeyByTag

\* db.pubKeyByTag[*tagH] = dataInsert
StorePubKey(tagH, dataInsert) == (tagH :> dataInsert) @@ pubKeyByTag

InsertObjectBody(data) ==
    LET call == [Call("InsertObject") EXCEPT !.data = <<data>>]
        hdr == DecodeMsgObjectHeader(data)
        objType == hdr.objType
        hash == CalcInventoryHash(data)
        dataInsert == data
        pk == PubKeyTag(data)
        counterMap == getCounterMap(objType)
    IN
    /\ ~Halted
    /\ IF closed
       THEN /\ ret' = [call EXCEPT !.err = ErrDbClosed]
            /\ UNCHANGED <<objectsByHash, pubKeyByTag, counterVars, inserted>>
       ELSE IF hdr.err # NoError
       THEN /\ ret' = [call EXCEPT !.err = hdr.err]
            /\ UNCHANGED <<objectsByHash, pubKeyByTag, counterVars, inserted>>
       ELSE IF objType = "PubKey" /\ pk.err # NoError
       THEN /\ ret' = [call EXCEPT !.err = pk.err]
            /\ UNCHANGED <<objectsByHash, pubKeyByTag, counterVars, inserted>>
       ELSE /\ pubKeyByTag' = IF objType = "PubKey"
                              THEN StorePubKey(pk.tag, dataInsert)
                              ELSE pubKeyByTag
            /\ objectsByHash' = StoreObject(hash, dataInsert)
            /\ IF counterMap = NilCounter
               THEN /\ SetCounters(objType :> counterMap)
                    /\ ret' = [call EXCEPT !.hash = <<hash>>, !.n = 0]
               ELSE /\ SetCounters(objType :> Insert(counterMap, hash))
                    /\ ret' = [call EXCEPT
                                 !.hash = <<hash>>,
                                 !.n = Insert(counterMap, hash).CounterPos]
            /\ inserted' = [inserted EXCEPT ![objType] = @ + 1]
    /\ UNCHANGED closed

\* InsertObject, called while fewer than MaxInserts inserts have succeeded
InsertObject(data) ==
    /\ TotalInserted < MaxInserts
    /\ InsertObjectBody(data)

\* --------------------------------------------------------------------------
\* RemoveObject, RemoveObjectByCounter
\* --------------------------------------------------------------------------
\* the loop `for k, v := range ByCounter { if v.IsEqual(hash) { delete; break } }':
\* the maps it can leave, one per entry the range can meet first
RemoveFirstMatch(byCounter, hash) ==
    LET matches == { k \in DOMAIN byCounter : byCounter[k] = hash }
    IN  IF matches = {} THEN { byCounter }
        ELSE { Delete(byCounter, k) : k \in matches }

RemoveObject(hash) ==
    LET call == [Call("RemoveObject") EXCEPT !.hash = <<hash>>]
    IN
    /\ ~Halted
    /\ IF closed
       THEN /\ ret' = [call EXCEPT !.err = ErrDbClosed]
            /\ UNCHANGED <<objectsByHash, counterVars>>
       ELSE IF hash \notin DOMAIN objectsByHash
       THEN /\ ret' = [call EXCEPT !.err = ErrNonexistentObject]
            /\ UNCHANGED <<objectsByHash, counterVars>>
       ELSE LET hdr == DecodeMsgObjectHeader(objectsByHash[hash])
                counterMap == getCounterMap(hdr.objType)
            IN  IF hdr.err # NoError
                THEN /\ ret' = [call EXCEPT !.err = panicMessage]
                     /\ SetCounters(hdr.objType :> counterMap)
                     /\ UNCHANGED objectsByHash
                ELSE /\ IF counterMap = NilCounter
                        THEN SetCounters(hdr.objType :> counterMap)
                        ELSE \E m \in RemoveFirstMatch(counterMap.ByCounter, hash) :
                               SetCounters(hdr.objType :>
                                   [counterMap EXCEPT !.ByCounter = m])
                     /\ objectsByHash' = Delete(objectsByHash, hash)
                     /\ ret' = call
    /\ UNCHANGED <<pubKeyByTag, closed, inserted>>

RemoveObjectByCounter(objType, counter) ==
    LET call == [Call("RemoveObjectByCounter") EXCEPT !.objType = objType,
                                                      !.counter = counter]
        counterMap == getCounterMap(objType)
    IN
    /\ ~Halted
    /\ IF closed
       THEN /\ ret' = [call EXCEPT !.err = ErrDbClosed]
            /\ UNCHANGED <<objectsByHash, counterVars>>
       ELSE IF counterMap = NilCounter
       THEN /\ ret' = [call EXCEPT !.err = ErrNotImplemented]
            /\ SetCounters(objType :> counterMap)
            /\ UNCHANGED objectsByHash
       ELSE IF counter \notin DOMAIN counterMap.ByCounter
       THEN /\ ret' = [call EXCEPT !.err = ErrNonexistentObject]
            /\ SetCounters(objType :> counterMap)
            /\ UNCHANGED objectsByHash
       ELSE /\ SetCounters(objType :>
                   [counterMap EXCEPT !.ByCounter = Delete(@, counter)])
            /\ objectsByHash' =
                   Delete(objectsByHash, counterMap.ByCounter[counter])
            /\ ret' = [call EXCEPT !.hash = <<counterMap.ByCounter[counter]>>]
    /\ UNCHANGED <<pubKeyByTag, closed, inserted>>

\* --------------------------------------------------------------------------
\* RemoveExpiredObjects
\* --------------------------------------------------------------------------
\* time.Now().Add(-time.Hour*3).After(expiresTime) && objType != PubKey
Expired(now, obj) ==
    LET hdr == DecodeMsgObjectHeader(obj)
    IN  now - 3 > hdr.expiresTime /\ hdr.objType # "PubKey"

\* the counters as one map from type to counter, as getCounterMap sees them
CounterView ==
    [t \in KnownTypes \cup DOMAIN unknownObjCounter |-> getCounterMap(t)]

\* the sweep over the expired hashes still to visit: the counter views it can
\* end with.  Each hash is visited once and removes one entry of its own, so
\* the order in which the hashes are visited does not change the outcomes.
RECURSIVE SweepCounters(_, _)
SweepCounters(hashes, view) ==
    IF hashes = {} THEN { view }
    ELSE LET hash == CHOOSE h \in hashes : TRUE
             objType == DecodeMsgObjectHeader(objectsByHash[hash]).objType
             counterMap == IF objType \in DOMAIN view THEN view[objType]
                           ELSE NewCounter
         IN  UNION { SweepCounters(hashes \ {hash},
                         (objType :> [counterMap EXCEPT !.ByCounter = m]) @@ view)
                     : m \in RemoveFirstMatch(counterMap.ByCounter, hash) }

RemoveExpiredObjects(now) ==
    LET call == [Call("RemoveExpiredObjects") EXCEPT !.now = now]
        undecodable == { h \in DOMAIN objectsByHash :
                           DecodeMsgObjectHeader(objectsByHash[h]).err # NoError }
        expired == { h \in DOMAIN objectsByHash : Expired(now, objectsByHash[h]) }
    IN
    /\ ~Halted
    /\ IF closed
       THEN /\ ret' = [call EXCEPT !.err = ErrDbClosed]
            /\ UNCHANGED <<objectsByHash, counterVars>>
       ELSE IF undecodable # {}
       THEN /\ ret' = [call EXCEPT !.err = panicMessage]
            /\ UNCHANGED <<objectsByHash, counterVars>>
       ELSE /\ \E view \in SweepCounters(expired, CounterView) : SetCounters(view)
            /\ objectsByHash' =
                   [h \in (DOMAIN objectsByHash) \ expired |-> objectsByHash[h]]
            /\ ret' = call
    /\ UNCHANGED <<pubKeyByTag, closed, inserted>>

\* --------------------------------------------------------------------------
\* RemovePubKey
\* --------------------------------------------------------------------------
\* RemovePubKey that also removes the pubkeys filed under the tag from
\* the hash index
RemovePubKeyAndObject(tag) ==
    LET call == [Call("RemovePubKey") EXCEPT !.tag = tag]
    IN
    /\ ~Halted
    /\ IF closed
       THEN /\ ret' = [call EXCEPT !.err = ErrDbClosed]
            /\ UNCHANGED <<pubKeyByTag, objectsByHash>>
       ELSE IF tag \notin DOMAIN pubKeyByTag
       THEN /\ ret' = [call EXCEPT !.err = ErrNonexistentObject]
            /\ UNCHANGED <<pubKeyByTag, objectsByHash>>
       ELSE /\ pubKeyByTag' = Delete(pubKeyByTag, tag)
            /\ objectsByHash' =
                   Delete(objectsByHash, CalcInventoryHash(pubKeyByTag[tag]))
            /\ ret' = call
    /\ UNCHANGED <<counterVars, closed, inserted>>

RemovePubKey(tag) ==
    LET call == [Call("RemovePubKey") EXCEPT !.tag = tag]
    IN
    /\ ~Halted
    /\ IF closed
       THEN /\ ret' = [call EXCEPT !.err = ErrDbClosed]
            /\ UNCHANGED pubKeyByTag
       ELSE IF tag \notin DOMAIN pubKeyByTag
       THEN /\ ret' = [call EXCEPT !.err = ErrNonexistentObject]
            /\ UNCHANGED pubKeyByTag
       ELSE /\ pubKeyByTag' = Delete(pubKeyByTag, tag)
            /\ ret' = call
    /\ UNCHANGED <<objectsByHash, counterVars, closed, inserted>>

\* --------------------------------------------------------------------------
\* A caller paging through the objects of one type, as sendOldObjects does:
\* fetch a batch from the cursor, and while the batch is full fetch the next
\* one from the counter the previous call returned.
\* --------------------------------------------------------------------------
PageStart(objType, count) ==
    /\ ~Halted
    /\ ~closed
    /\ ~pager.active
    /\ pager' = [IdlePager EXCEPT !.active = TRUE, !.objType = objType,
                                  !.count = count, !.from = 1,
                                  !.start = getCounterMap(objType)]
    /\ UNCHANGED <<dbVars, ret, inserted>>

PageFetch ==
    /\ pager.active
    /\ ~pager.done
    /\ pager.calls < MaxPageCalls
    /\ FetchObjectsFromCounter(pager.objType, pager.from, pager.count)
    /\ pager' = [pager EXCEPT
                   !.calls = @ + 1,
                   !.got = @ \o ret'.keys,
                   !.cuts = @ \cup {Len(pager.got) + Len(ret'.keys)},
                   !.from = ret'.n,
                   !.done = (ret'.err # NoError) \/ (Len(ret'.objs) # pager.count)]

\* --------------------------------------------------------------------------
\* The store under arbitrary calls of its methods
\* --------------------------------------------------------------------------
Next ==
    \/ Close /\ UNCHANGED envVars
    \/ RollbackClose /\ UNCHANGED envVars
    \/ Sync /\ UNCHANGED envVars
    \/ \E hash \in Hashes : ExistsObject(hash) /\ UNCHANGED envVars
    \/ \E hash \in Hashes : FetchObjectByHash(hash) /\ UNCHANGED envVars
    \/ \E objType \in ObjectTypes, counter \in Counters :
           FetchObjectByCounter(objType, counter) /\ UNCHANGED envVars
    \/ \E objType \in ObjectTypes, counter \in Counters :
           FetchObjectsFromCounter(objType, counter, MaxCount)
           /\ UNCHANGED envVars
    \/ FetchIdentityByAddress /\ UNCHANGED envVars
    \/ ExistsGetPubKey /\ UNCHANGED envVars
    \/ FetchRandomObject /\ UNCHANGED envVars
    \/ \E objType \in ObjectTypes : GetCounter(objType) /\ UNCHANGED envVars
    \/ \E data \in Data : InsertObject(data) /\ UNCHANGED envVars
    \/ \E hash \in Hashes : RemoveObject(hash) /\ UNCHANGED envVars
    \/ \E objType \in ObjectTypes, counter \in Counters :
           RemoveObjectByCounter(objType, counter) /\ UNCHANGED envVars
    \/ \E now \in Nows : RemoveExpiredObjects(now) /\ UNCHANGED envVars
    \/ \E tag \in Tags : RemovePubKey(tag) /\ UNCHANGED envVars

Spec == Init /\ [][Next]_vars

\* --------------------------------------------------------------------------
\* The counter buckets of two types under inserts, removals, counter fetches
\* with every cursor and every count, and GetCounter
\* --------------------------------------------------------------------------
NextFetch ==
    \/ \E data \in FetchData : InsertObject(data) /\ UNCHANGED envVars
    \/ \E hash \in FetchHashes : RemoveObject(hash) /\ UNCHANGED envVars
    \/ \E objType \in FetchTypes, counter \in Counters :
           RemoveObjectByCounter(objType, counter) /\ UNCHANGED envVars
    \/ \E now \in Nows : RemoveExpiredObjects(now) /\ UNCHANGED envVars
    \/ \E objType \in FetchTypes, counter \in Counters :
           FetchObjectByCounter(objType, counter) /\ UNCHANGED envVars
    \/ \E objType \in FetchTypes, counter \in Counters, count \in Counts :
           FetchObjectsFromCounter(objType, counter, count)
           /\ UNCHANGED envVars
    \/ \E objType \in FetchTypes : GetCounter(objType) /\ UNCHANGED envVars

SpecFetch == Init /\ [][NextFetch]_vars

\* --------------------------------------------------------------------------
\* The hash index under inserts, every kind of removal and Close, read by
\* hash
\* --------------------------------------------------------------------------
NextHash ==
    \/ \E data \in Data : InsertObject(data) /\ UNCHANGED envVars
    \/ \E hash \in Hashes : RemoveObject(hash) /\ UNCHANGED envVars
    \/ \E objType \in ObjectTypes, counter \in Counters :
           RemoveObjectByCounter(objType, counter) /\ UNCHANGED envVars
    \/ \E now \in Nows : RemoveExpiredObjects(now) /\ UNCHANGED envVars
    \/ Close /\ UNCHANGED envVars
    \/ \E hash \in Hashes : ExistsObject(hash) /\ UNCHANGED envVars
    \/ \E hash \in Hashes : FetchObjectByHash(hash) /\ UNCHANGED envVars

SpecHash == Init /\ [][NextHash]_vars

\* --------------------------------------------------------------------------
\* One bucket under inserts and removals, and one paged transfer of it
\* --------------------------------------------------------------------------
NextPage ==
    \/ \E data \in PageData : InsertObject(data) /\ UNCHANGED envVars
    \/ \E hash \in PageHashes : RemoveObject(hash) /\ UNCHANGED envVars
    \/ \E counter \in Counters :
           RemoveObjectByCounter("Msg", counter) /\ UNCHANGED envVars
    \/ \E count \in PageCounts : PageStart("Msg", count) /\ UNCHANGED notPage
    \/ PageFetch /\ UNCHANGED notPage

SpecPage == Init /\ [][NextPage]_vars

\* --------------------------------------------------------------------------
\* Goroutines calling one MemDb concurrently.  A method is db.Lock(), its
\* body, and the deferred db.Unlock().  The bodies of InsertObject and
\* RemoveObject write the hash index and the counter bucket in two separate
\* statements, which are two steps here; the bodies that only read are one
\* step.
\* --------------------------------------------------------------------------
ConcData == { d \in ValidData : d.objType = "Msg" }
ConcHashes == { CalcInventoryHash(d) : d \in ConcData }

\* the calls a goroutine makes
ConcCalls ==
    { [Call("InsertObject") EXCEPT !.data = <<d>>] : d \in ConcData }
    \cup { [Call("RemoveObject") EXCEPT !.hash = <<h>>] : h \in ConcHashes }
    \cup { [Call("FetchObjectByCounter") EXCEPT !.objType = "Msg", !.counter = c]
           : c \in 1..MaxInserts }
    \cup { Call("Sync") }

\* the InsertObject calls that are under way
PendingInserts ==
    Cardinality({ g \in Goroutines :
                    gor[g].pc # "idle" /\ gor[g].call.op = "InsertObject" })

\* the indices a goroutine finds when it has taken the lock
Snapshot == [objectsByHash |-> objectsByHash, msgCounter |-> msgCounter]

\* a goroutine enters a method
Enter(g, call) ==
    /\ ~Halted
    /\ gor[g].pc = "idle"
    /\ call.op = "InsertObject" => TotalInserted + PendingInserts < MaxInserts
    /\ gor' = [gor EXCEPT ![g] = [pc |-> "lock", call |-> call, snap |-> <<>>]]
    /\ UNCHANGED <<dbVars, ret, inserted, notLock, mu>>

\* a lock that is taken without waiting for its holder
LockWithoutWaiting(g) ==
    /\ ~Halted
    /\ gor[g].pc = "lock"
    /\ mu' = g
    /\ gor' = [gor EXCEPT ![g].pc = "body", ![g].snap = Snapshot]
    /\ UNCHANGED <<dbVars, ret, inserted, notLock>>

\* db.Lock()
Lock(g) ==
    /\ ~Halted
    /\ gor[g].pc = "lock"
    /\ mu = NoHolder
    /\ mu' = g
    /\ gor' = [gor EXCEPT ![g].pc = "body", ![g].snap = Snapshot]
    /\ UNCHANGED <<dbVars, ret, inserted, notLock>>

\* InsertObject up to db.objectsByHash[*hash] = dataInsert
InsertObjectStore(g) ==
    LET call == gor[g].call
        data == call.data[1]
        hdr == DecodeMsgObjectHeader(data)
        hash == CalcInventoryHash(data)
        pk == PubKeyTag(data)
        fail(err) ==
            /\ ret' = [call EXCEPT !.err = err]
            /\ gor' = [gor EXCEPT ![g].pc = "unlock"]
            /\ UNCHANGED <<objectsByHash, pubKeyByTag>>
    IN
    /\ ~Halted
    /\ gor[g].pc = "body"
    /\ call.op = "InsertObject"
    /\ IF closed THEN fail(ErrDbClosed)
       ELSE IF hdr.err # NoError THEN fail(hdr.err)
       ELSE IF hdr.objType = "PubKey" /\ pk.err # NoError THEN fail(pk.err)
       ELSE /\ pubKeyByTag' = IF hdr.objType = "PubKey"
                              THEN StorePubKey(pk.tag, data)
                              ELSE pubKeyByTag
            /\ objectsByHash' = StoreObject(hash, data)
            /\ gor' = [gor EXCEPT ![g].pc = "counter"]
            /\ UNCHANGED ret
    /\ UNCHANGED <<counterVars, closed, inserted, notLock, mu>>

\* InsertObject from counterMap := db.getCounterMap(objType) to its return
InsertObjectCounter(g) ==
    LET call == gor[g].call
        data == call.data[1]
        objType == DecodeMsgObjectHeader(data).objType
        hash == CalcInventoryHash(data)
        counterMap == getCounterMap(objType)
    IN
    /\ ~Halted
    /\ gor[g].pc = "counter"
    /\ call.op = "InsertObject"
    /\ IF counterMap = NilCounter
       THEN /\ SetCounters(objType :> counterMap)
            /\ ret' = [call EXCEPT !.hash = <<hash>>, !.n = 0]
       ELSE /\ SetCounters(objType :> Insert(counterMap, hash))
            /\ ret' = [call EXCEPT !.hash = <<hash>>,
                                   !.n = Insert(counterMap, hash).CounterPos]
    /\ inserted' = [inserted EXCEPT ![objType] = @ + 1]
    /\ gor' = [gor EXCEPT ![g].pc = "unlock"]
    /\ UNCHANGED <<objectsByHash, pubKeyByTag, closed, notLock, mu>>

\* RemoveObject up to the loop that deletes the counter entry
RemoveObjectCounter(g) ==
    LET call == gor[g].call
        hash == call.hash[1]
        fail(err) ==
            /\ ret' = [call EXCEPT !.err = err]
            /\ gor' = [gor EXCEPT ![g].pc = "unlock"]
            /\ UNCHANGED counterVars
    IN
    /\ ~Halted
    /\ gor[g].pc = "body"
    /\ call.op = "RemoveObject"
    /\ IF closed THEN fail(ErrDbClosed)
       ELSE IF hash \notin DOMAIN objectsByHash THEN fail(ErrNonexistentObject)
       ELSE LET hdr == DecodeMsgObjectHeader(objectsByHash[hash])
                counterMap == getCounterMap(hdr.objType)
            IN  IF hdr.err # NoError
                THEN /\ ret' = [call EXCEPT !.err = panicMessage]
                     /\ gor' = [gor EXCEPT ![g].pc = "unlock"]
                     /\ UNCHANGED counterVars
                ELSE /\ IF counterMap = NilCounter
                        THEN SetCounters(hdr.objType :> counterMap)
                        ELSE \E m \in RemoveFirstMatch(counterMap.ByCounter, hash) :
                               SetCounters(hdr.objType :>
                                   [counterMap EXCEPT !.ByCounter = m])
                     /\ gor' = [gor EXCEPT ![g].pc = "hash"]
                     /\ UNCHANGED ret
    /\ UNCHANGED <<objectsByHash, pubKeyByTag, closed, inserted, notLock, mu>>

\* RemoveObject from delete(db.objectsByHash, *hash) to its return
RemoveObjectHash(g) ==
    /\ ~Halted
    /\ gor[g].pc = "hash"
    /\ gor[g].call.op = "RemoveObject"
    /\ objectsByHash' = Delete(objectsByHash, gor[g].call.hash[1])
    /\ ret' = gor[g].call
    /\ gor' = [gor EXCEPT ![g].pc = "unlock"]
    /\ UNCHANGED <<pubKeyByTag, counterVars, closed, inserted, notLock, mu>>

\* the body of FetchObjectByCounter
FetchObjectByCounterLocked(g) ==
    /\ gor[g].pc = "body"
    /\ gor[g].call.op = "FetchObjectByCounter"
    /\ FetchObjectByCounter(gor[g].call.objType, gor[g].call.counter)
    /\ gor' = [gor EXCEPT ![g].pc = "unlock"]
    /\ UNCHANGED <<notLock, mu>>

\* the body of Sync
SyncLocked(g) ==
    /\ gor[g].pc = "body"
    /\ gor[g].call.op = "Sync"
    /\ Sync
    /\ gor' = [gor EXCEPT ![g].pc = "unlock"]
    /\ UNCHANGED <<notLock, mu>>

\* the deferred db.Unlock() and the return; it also runs when the body has
\* panicked
Unlock(g) ==
    /\ gor[g].pc = "unlock"
    /\ mu' = NoHolder
    /\ gor' = [gor EXCEPT ![g] = IdleGoroutine]
    /\ UNCHANGED <<dbVars, ret, inserted, notLock>>

NextConc ==
    \/ \E g \in Goroutines, call \in ConcCalls : Enter(g, call)
    \/ \E g \in Goroutines : Lock(g)
    \/ \E g \in Goroutines : InsertObjectStore(g)
    \/ \E g \in Goroutines : InsertObjectCounter(g)
    \/ \E g \in Goroutines : RemoveObjectCounter(g)
    \/ \E g \in Goroutines : RemoveObjectHash(g)
    \/ \E g \in Goroutines : FetchObjectByCounterLocked(g)
    \/ \E g \in Goroutines : SyncLocked(g)
    \/ \E g \in Goroutines : Unlock(g)

SpecConc == Init /\ [][NextConc]_vars

\* --------------------------------------------------------------------------
\* Goroutines that also close the store, under a fair scheduler
\* --------------------------------------------------------------------------
LiveData == { Obj(TRUE, "Msg", 2, 1) }

LiveCalls ==
    { [Call("InsertObject") EXCEPT !.data = <<d>>] : d \in LiveData }
    \cup { [Call("RemoveObject") EXCEPT !.hash = <<CalcInventoryHash(d)>>]
           : d \in LiveData }
    \cup { [Call("FetchObjectByCounter") EXCEPT !.objType = "Msg", !.counter = c]
           : c \in 1..MaxInserts }
    \cup { Call("Sync"), Call("Close") }

\* a goroutine enters RollbackClose
EnterRollbackClose(g) ==
    /\ ~Halted
    /\ gor[g].pc = "idle"
    /\ gor' = [gor EXCEPT ![g] = [pc |-> "rollback",
                                  call |-> Call("RollbackClose"),
                                  snap |-> <<>>]]
    /\ UNCHANGED <<dbVars, ret, inserted, notLock, mu>>

\* RollbackClose that takes the mutex before it calls Close
RollbackCloseHoldsLock(g) ==
    /\ ~Halted
    /\ gor[g].pc = "rollback"
    /\ mu = NoHolder
    /\ mu' = g
    /\ gor' = [gor EXCEPT ![g].pc = "lock"]
    /\ UNCHANGED <<dbVars, ret, inserted, notLock>>

\* return db.Close(): RollbackClose calls Close, which takes the mutex
RollbackCloseCallsClose(g) ==
    /\ ~Halted
    /\ gor[g].pc = "rollback"
    /\ gor' = [gor EXCEPT ![g].pc = "lock"]
    /\ UNCHANGED <<dbVars, ret, inserted, notLock, mu>>

\* the body of Close
CloseLocked(g) ==
    /\ ~Halted
    /\ gor[g].pc = "body"
    /\ gor[g].call.op \in {"Close", "RollbackClose"}
    /\ CloseBody(gor[g].call.op)
    /\ gor' = [gor EXCEPT ![g].pc = "unlock"]
    /\ UNCHANGED <<notLock, mu>>

\* a goroutine that holds the mutex runs the next part of its method
Body(g) ==
    \/ InsertObjectStore(g)
    \/ InsertObjectCounter(g)
    \/ RemoveObjectCounter(g)
    \/ RemoveObjectHash(g)
    \/ FetchObjectByCounterLocked(g)
    \/ SyncLocked(g)
    \/ CloseLocked(g)

NextLive ==
    \/ \E g \in Goroutines, call \in LiveCalls : Enter(g, call)
    \/ \E g \in Goroutines : EnterRollbackClose(g)
    \/ \E g \in Goroutines : RollbackCloseCallsClose(g)
    \/ \E g \in Goroutines : Lock(g)
    \/ \E g \in Goroutines : Body(g)
    \/ \E g \in Goroutines : Unlock(g)

\* the scheduler runs every goroutine that can run, and the mutex is handed
\* to every goroutine that keeps asking for it
SpecLive ==
    /\ Init
    /\ [][NextLive]_vars
    /\ \A g \in Goroutines :
          /\ SF_vars(Lock(g))
          /\ WF_vars(RollbackCloseCallsClose(g))
          /\ WF_vars(Body(g))
          /\ WF_vars(Unlock(g))

\* --------------------------------------------------------------------------
\* Byte slices.  A []byte is a view of a backing array: two slices of the
\* same array show each other's writes.  objectsByHash and pubKeyByTag hold
\* slices; `slices' records the array of each.  One caller keeps one buffer:
\* it fills a buffer and inserts it, or keeps what a fetch returned, and
\* writes into the buffer it holds.
\* --------------------------------------------------------------------------
BufData == { Obj(TRUE, "Msg", 2, 1),
             PubKeyObj(2, 1, TRUE, "encrypted", TRUE, "", "T1") }
BufHashes == { CalcInventoryHash(d) : d \in BufData }
\* the bytes a caller overwrites its buffer with
BufWrites == { Obj(TRUE, "Msg", 9, 2), Obj(FALSE, "Msg", 9, 3) }

\* the array of dataInsert, given the array of the argument and the next
\* array make() returns: InsertObject stores the argument itself
dataInsertIsArgument(argArray, newArray) == argArray

\* dataInsert := make([]byte, len(data)); copy(dataInsert, data)
dataInsertArray(argArray, newArray) == newArray

\* the arrays of the stored slices after a call of the store made with an
\* argument in argArray: a successful InsertObject files dataInsert under the
\* hash, and under the tag of a pubkey; entries leave with their keys
TrackSlices(argArray) ==
    LET stored == ret'.op = "InsertObject" /\ ret'.err = NoError
        array == dataInsertArray(argArray, TotalInserted')
    IN  slices' =
          [byHash |->
             [h \in DOMAIN objectsByHash' |->
                IF stored /\ ret'.hash = <<h>> THEN array
                ELSE slices.byHash[h]],
           byTag |->
             [t \in DOMAIN pubKeyByTag' |->
                IF /\ stored
                   /\ ret'.data[1].objType = "PubKey"
                   /\ PubKeyTag(ret'.data[1]).tag = t
                THEN array
                ELSE slices.byTag[t]]]

\* the caller allocates a buffer and fills it with the bytes of an object
NewBuffer(data) ==
    /\ ~Halted
    /\ buf' = [NoBuffer EXCEPT !.held = TRUE, !.bytes = <<data>>]
    /\ UNCHANGED <<dbVars, ret, inserted, slices, notBuf>>

\* InsertObject(buf)
InsertBuffer ==
    /\ buf.held
    /\ InsertObject(buf.bytes[1])
    /\ TrackSlices(buf.addr)
    /\ buf' = [buf EXCEPT !.fetched = FALSE,
                          !.insertedAs = IF ret'.err = NoError THEN ret'.hash
                                         ELSE <<>>]
    /\ UNCHANGED notBuf

\* buf, err = FetchObjectByHash(hash): fetchObjectByHash returns the slice
\* found in objectsByHash
FetchHashToBuffer(hash) ==
    /\ FetchObjectByHash(hash)
    /\ TrackSlices(buf.addr)
    /\ buf' = IF ret'.err = NoError
              THEN [NoBuffer EXCEPT !.held = TRUE, !.fetched = TRUE,
                                    !.addr = slices.byHash[hash],
                                    !.bytes = ret'.obj]
              ELSE buf
    /\ UNCHANGED notBuf

\* buf, err = FetchObjectByCounter(objType, counter): the slice found in
\* objectsByHash is returned
FetchCounterToBuffer(objType, counter) ==
    /\ FetchObjectByCounter(objType, counter)
    /\ TrackSlices(buf.addr)
    /\ buf' = IF ret'.err = NoError
              THEN [NoBuffer EXCEPT
                      !.held = TRUE, !.fetched = TRUE,
                      !.addr = slices.byHash[
                                 getCounterMap(objType).ByCounter[counter]],
                      !.bytes = ret'.obj]
              ELSE buf
    /\ UNCHANGED notBuf

\* objs, _, err = FetchObjectsFromCounter(objType, counter, 1); buf = objs[0]:
\* each object returned is objCopy, a new array
FetchFromCounterToBuffer(objType, counter) ==
    /\ FetchObjectsFromCounter(objType, counter, 1)
    /\ TrackSlices(buf.addr)
    /\ buf' = IF ret'.err = NoError /\ ret'.objs # <<>>
              THEN [NoBuffer EXCEPT !.held = TRUE, !.fetched = TRUE,
                                    !.addr = CallerArray,
                                    !.bytes = <<ret'.objs[1]>>]
              ELSE buf
    /\ UNCHANGED notBuf

\* the caller overwrites the buffer it holds: every slice of the same array
\* shows the new bytes
WriteBuffer(data) ==
    /\ ~Halted
    /\ buf.held
    /\ buf.bytes # <<data>>
    /\ buf' = [buf EXCEPT !.bytes = <<data>>]
    /\ objectsByHash' =
          [h \in DOMAIN objectsByHash |->
             IF slices.byHash[h] = buf.addr THEN data ELSE objectsByHash[h]]
    /\ pubKeyByTag' =
          [t \in DOMAIN pubKeyByTag |->
             IF slices.byTag[t] = buf.addr THEN data ELSE pubKeyByTag[t]]
    /\ UNCHANGED <<counterVars, closed, ret, inserted, slices, notBuf>>

NextBuf ==
    \/ \E data \in BufData : NewBuffer(data)
    \/ InsertBuffer
    \/ \E hash \in BufHashes : FetchHashToBuffer(hash)
    \/ \E objType \in {"Msg", "PubKey"}, counter \in 1..MaxInserts :
           FetchCounterToBuffer(objType, counter)
    \/ \E objType \in {"Msg", "PubKey"}, counter \in 1..MaxInserts :
           FetchFromCounterToBuffer(objType, counter)
    \/ \E data \in BufWrites : WriteBuffer(data)
    \/ \E hash \in BufHashes :
           FetchObjectByHash(hash) /\ TrackSlices(buf.addr)
           /\ UNCHANGED <<buf, notBuf>>
    \/ \E hash \in BufHashes :
           RemoveObject(hash) /\ TrackSlices(buf.addr)
           /\ UNCHANGED <<buf, notBuf>>

SpecBuf == Init /\ [][NextBuf]_vars

\* --------------------------------------------------------------------------
\* The tag index and the hash index under inserts of pubkeys and every kind
\* of removal
\* --------------------------------------------------------------------------
PubKeyA == PubKeyObj(2, 1, TRUE, "encrypted", TRUE, "", "T1")
PubKeyB == PubKeyObj(9, 2, TRUE, "simple", TRUE, "T2", "")
TagData == { PubKeyA, PubKeyB, Obj(TRUE, "Msg", 2, 1) }
TagHashes == { CalcInventoryHash(d) : d \in TagData }

NextTag ==
    \/ \E data \in TagData : InsertObject(data) /\ UNCHANGED envVars
    \/ \E tag \in Tags : RemovePubKey(tag) /\ UNCHANGED envVars
    \/ \E hash \in TagHashes : RemoveObject(hash) /\ UNCHANGED envVars
    \/ \E objType \in {"PubKey", "Msg"}, counter \in 1..MaxInserts :
           RemoveObjectByCounter(objType, counter) /\ UNCHANGED envVars
    \/ \E now \in Nows : RemoveExpiredObjects(now) /\ UNCHANGED envVars
    \/ \E hash \in TagHashes : ExistsObject(hash) /\ UNCHANGED envVars

SpecTag == Init /\ [][NextTag]_vars

\* --------------------------------------------------------------------------
\* Package database: the list of registered drivers
\* --------------------------------------------------------------------------
\* DriverDB
DriverDB(DbType, CreateDBFn, OpenDBFn) ==
    [DbType |-> DbType, CreateDB |-> CreateDBFn, OpenDB |-> OpenDBFn]

\* the instance memdb's init() registers, and the instances of a second
\* backend, registered under its own name or under the name memdb
DriverInstances ==
    { DriverDB("memdb", "memdb.CreateDB", "memdb.OpenDB"),
      DriverDB("memdb", "ldb.CreateDB", "ldb.OpenDB"),
      DriverDB("leveldb", "ldb.CreateDB", "ldb.OpenDB"),
      DriverDB("leveldb", "memdb.CreateDB", "memdb.OpenDB") }

\* the names and the argument lists CreateDB and OpenDB are called with
DbTypes == {"memdb", "leveldb", "sqlite"}
ArgLists == { <<>>, <<"path">> }

\* memdb's parseArgs
parseArgs(funcName, args) ==
    IF Len(args) # 0
    THEN "memdb." \o funcName \o " does not accept any arguments"
    ELSE NoError

\* a call of a driver's constructor.  memdb.CreateDB and memdb.OpenDB return
\* the error of parseArgs or a new MemDb; the constructors of the second
\* backend are outside this repository: what they return is a value that
\* depends on the constructor and on its arguments
CallDriver(fn, args) ==
    CASE fn = "memdb.CreateDB" ->
            IF parseArgs("CreateDB", args) # NoError
            THEN [db |-> <<>>, err |-> parseArgs("CreateDB", args)]
            ELSE [db |-> <<"MemDb">>, err |-> NoError]
      [] fn = "memdb.OpenDB" ->
            IF parseArgs("OpenDB", args) # NoError
            THEN [db |-> <<>>, err |-> parseArgs("OpenDB", args)]
            ELSE [db |-> <<"MemDb">>, err |-> NoError]
      [] OTHER -> [db |-> <<<<fn, args>>>>, err |-> NoError]

\* `for _, drv := range driverList { if drv.DbType == dbtype {...} }': the
\* index of the first driver of that name from position i on, 0 if none
RECURSIVE FindDriver(_, _, _)
FindDriver(list, dbtype, i) ==
    IF i > Len(list) THEN 0
    ELSE IF list[i].DbType = dbtype THEN i
    ELSE FindDriver(list, dbtype, i + 1)

\* the history of the AddDBDriver calls after a call with instance
Registered(instance) ==
    IF instance.DbType \in DOMAIN registered.first THEN registered
    ELSE [first |-> (instance.DbType :> instance) @@ registered.first,
          order |-> Append(registered.order, instance.DbType)]

\* AddDBDriver that replaces the driver registered under the same name
AddDBDriverLastWins(instance) ==
    LET i == FindDriver(driverList, instance.DbType, 1)
    IN
    /\ driverList' = IF i # 0 THEN [driverList EXCEPT ![i] = instance]
                     ELSE Append(driverList, instance)
    /\ registered' = Registered(instance)
    /\ ret' = [Call("AddDBDriver") EXCEPT !.dbtype = instance.DbType,
                                          !.args = <<instance>>]
    /\ UNCHANGED <<dbVars, inserted, notReg>>

AddDBDriver(instance) ==
    /\ driverList' = IF FindDriver(driverList, instance.DbType, 1) # 0
                     THEN driverList
                     ELSE Append(driverList, instance)
    /\ registered' = Registered(instance)
    /\ ret' = [Call("AddDBDriver") EXCEPT !.dbtype = instance.DbType,
                                          !.args = <<instance>>]
    /\ UNCHANGED <<dbVars, inserted, notReg>>

CreateDB(dbtype, args) ==
    LET call == [Call("CreateDB") EXCEPT !.dbtype = dbtype, !.args = args]
        i == FindDriver(driverList, dbtype, 1)
    IN
    /\ ret' = IF i # 0
              THEN [call EXCEPT
                      !.db = CallDriver(driverList[i].CreateDB, args).db,
                      !.err = CallDriver(driverList[i].CreateDB, args).err]
              ELSE [call EXCEPT !.err = ErrDbUnknownType]
    /\ UNCHANGED <<dbVars, inserted, regVars, notReg>>

\* OpenDB that calls the driver's CreateDB
OpenDBCallsCreate(dbtype, args) ==
    LET call == [Call("OpenDB") EXCEPT !.dbtype = dbtype, !.args = args]
        i == FindDriver(driverList, dbtype, 1)
    IN
    /\ ret' = IF i # 0
              THEN [call EXCEPT
                      !.db = CallDriver(driverList[i].CreateDB, args).db,
                      !.err = CallDriver(driverList[i].CreateDB, args).err]
              ELSE [call EXCEPT !.err = ErrDbUnknownType]
    /\ UNCHANGED <<dbVars, inserted, regVars, notReg>>

OpenDB(dbtype, args) ==
    LET call == [Call("OpenDB") EXCEPT !.dbtype = dbtype, !.args = args]
        i == FindDriver(driverList, dbtype, 1)
    IN
    /\ ret' = IF i # 0
              THEN [call EXCEPT
                      !.db = CallDriver(driverList[i].OpenDB, args).db,
                      !.err = CallDriver(driverList[i].OpenDB, args).err]
              ELSE [call EXCEPT !.err = ErrDbUnknownType]
    /\ UNCHANGED <<dbVars, inserted, regVars, notReg>>

SupportedDBs ==
    /\ ret' = [Call("SupportedDBs") EXCEPT
                 !.names = [i \in 1..Len(driverList) |-> driverList[i].DbType]]
    /\ UNCHANGED <<dbVars, inserted, regVars, notReg>>

NextReg ==
    \/ \E instance \in DriverInstances : AddDBDriver(instance)
    \/ \E dbtype \in DbTypes, args \in ArgLists : CreateDB(dbtype, args)
    \/ \E dbtype \in DbTypes, args \in ArgLists : OpenDB(dbtype, args)
    \/ SupportedDBs

SpecReg == Init /\ [][NextReg]_vars

\* --------------------------------------------------------------------------
\* A store that is filled and then closed, by Close or by RollbackClose
\* --------------------------------------------------------------------------
NextClose ==
    \/ \E data \in Data : InsertObject(data) /\ UNCHANGED envVars
    \/ Close /\ UNCHANGED envVars
    \/ RollbackClose /\ UNCHANGED envVars
    \/ \E hash \in Hashes : ExistsObject(hash) /\ UNCHANGED envVars

SpecClose == Init /\ [][NextClose]_vars

\* --------------------------------------------------------------------------
\* A store that receives objects of every type
\* --------------------------------------------------------------------------
TypeData ==
    { Obj(TRUE, "GetPubKey", 9, 1), Obj(TRUE, "Msg", 2, 1),
      Obj(TRUE, "Broadcast", 9, 1), Obj(TRUE, "Unknown4", 2, 1),
      Obj(TRUE, "Unknown4", 9, 2),
      PubKeyObj(2, 1, TRUE, "encrypted", TRUE, "", "T1") }
TypeHashes == { CalcInventoryHash(d) : d \in TypeData }

NextTypes ==
    \/ \E data \in TypeData : InsertObject(data) /\ UNCHANGED envVars
    \/ \E objType \in ObjectTypes : GetCounter(objType) /\ UNCHANGED envVars
    \/ \E objType \in ObjectTypes, counter \in Counters :
           FetchObjectByCounter(objType, counter) /\ UNCHANGED envVars
    \/ \E objType \in ObjectTypes :
           FetchObjectsFromCounter(objType, 0, MaxCount) /\ UNCHANGED envVars
    \/ \E hash \in TypeHashes : RemoveObject(hash) /\ UNCHANGED envVars
    \/ \E objType \in ObjectTypes, counter \in Counters :
           RemoveObjectByCounter(objType, counter) /\ UNCHANGED envVars
    \/ \E now \in Nows : RemoveExpiredObjects(now) /\ UNCHANGED envVars

SpecTypes == Init /\ [][NextTypes]_vars

\* --------------------------------------------------------------------------
\* Inserts that succeed, inserts that fail and public keys that share a tag
\* --------------------------------------------------------------------------
PubKeyC == PubKeyObj(9, 3, TRUE, "encrypted", TRUE, "", "T1")
InsertData ==
    { PubKeyA, PubKeyC, Obj(TRUE, "Msg", 2, 1),
      Obj(FALSE, "Msg", 9, 3),
      PubKeyObj(9, 4, TRUE, "simple", FALSE, "T2", ""),
      PubKeyObj(9, 5, FALSE, "simple", TRUE, "T2", "") }
InsertHashes == { CalcInventoryHash(d) : d \in InsertData }

NextInsert ==
    \/ \E data \in InsertData : InsertObject(data) /\ UNCHANGED envVars
    \/ \E tag \in Tags : RemovePubKey(tag) /\ UNCHANGED envVars
    \/ \E hash \in InsertHashes : RemoveObject(hash) /\ UNCHANGED envVars
    \/ \E hash \in InsertHashes : ExistsObject(hash) /\ UNCHANGED envVars

SpecInsert == Init /\ [][NextInsert]_vars

\* --------------------------------------------------------------------------
\* RPC: handleSubscribe and sendOldObjects
\* --------------------------------------------------------------------------
\* the batch size of sendOldObjects
rpcCounterObjectsSize == 2

\* a backlog one object longer than a batch
MaxBacklog == rpcCounterObjectsSize + 1

SubTypes == {"Msg"}
SubData == { Obj(TRUE, "Msg", 9, body) : body \in 1..MaxBacklog }
SubCounters == 1..rpcCounterObjectsSize

\* base64.StdEncoding.EncodeToString
EncodeToString(msg) == <<"base64", msg>>

RPCReceiveArgs(Object, Counter) == [Object |-> Object, Counter |-> Counter]

\* the WaitGroup of a batch: the goroutines that have added themselves and
\* are not done
wg(batch) ==
    Cardinality({ i \in DOMAIN workers :
                    workers[i].batch = batch /\ workers[i].st = "called" })

\* the server stores a new object and has its event to emit; the objects are
\* interchangeable and arrive in the order of their bodies
ServerInsert(data) ==
    /\ pending = <<>>
    /\ TotalInserted < MaxBacklog
    /\ data.body = TotalInserted + 1
    /\ InsertObjectBody(data)
    /\ pending' = IF ret'.err = NoError
                  THEN <<[objType |-> DecodeMsgObjectHeader(data).objType,
                          out |-> RPCReceiveArgs(EncodeToString(data), ret'.n)]>>
                  ELSE <<>>
    /\ UNCHANGED <<subscription, workers, client>>

\* the event of a new object is emitted: the handler registered by
\* handleSubscribe calls the client, and closes it when the call fails
EmitNewObject(callOk) ==
    /\ ~Halted
    /\ pending # <<>>
    /\ pending' = <<>>
    /\ client' =
          IF pending[1].objType \notin client.handlers THEN client
          ELSE IF callOk /\ client.open
          THEN [client EXCEPT !.received = @ \cup {pending[1].out}]
          ELSE [client EXCEPT !.open = FALSE]
    /\ UNCHANGED <<dbVars, ret, inserted, subscription, workers>>

\* handleSubscribe up to the call of sendOldObjects
handleSubscribe(objType, fromCounter, restrictAuth) ==
    /\ ~Halted
    /\ subscription.pc = "idle"
    /\ IF restrictAuth # NoError
       THEN /\ subscription' = [subscription EXCEPT !.pc = "returned",
                                                    !.objType = objType,
                                                    !.fromCounter = fromCounter,
                                                    !.err = restrictAuth]
            /\ UNCHANGED client
       ELSE /\ subscription' = [subscription EXCEPT !.pc = "send",
                                                    !.objType = objType,
                                                    !.fromCounter = fromCounter,
                                                    !.cursor = fromCounter,
                                                    !.batch = 1]
            /\ client' = [client EXCEPT !.handlers = @ \cup {objType}]
    /\ UNCHANGED <<dbVars, ret, inserted, workers, pending>>

\* sendOldObjects from FetchObjectsFromCounter to the end of the loop that
\* starts one goroutine per object
sendOldObjects ==
    /\ subscription.pc = "send"
    /\ FetchObjectsFromCounter(subscription.objType, subscription.cursor,
                               rpcCounterObjectsSize)
    /\ IF ret'.err # NoError
       THEN /\ subscription' = [subscription EXCEPT !.pc = "returned",
                                                    !.err = "database error"]
            /\ UNCHANGED workers
       ELSE /\ subscription' = [subscription EXCEPT !.pc = "wait",
                                                    !.size = Len(ret'.objs),
                                                    !.lastCount = ret'.n]
            /\ workers' = workers \o
                  [i \in 1..Len(ret'.objs) |->
                      [batch |-> subscription.batch,
                       out |-> RPCReceiveArgs(EncodeToString(ret'.objs[i]), i - 1),
                       st |-> "spawned"]]
    /\ UNCHANGED <<client, pending>>

\* a goroutine of a batch runs wg.Add(1) and client.Go
WorkerStart(i) ==
    /\ ~Halted
    /\ workers[i].st = "spawned"
    /\ workers' = [workers EXCEPT ![i].st = "called"]
    /\ UNCHANGED <<dbVars, ret, inserted, subscription, client, pending>>

\* case <-call.Done: the call has reached the client, or has failed and
\* callError is set; then wg.Done()
CallDone(i, callOk) ==
    /\ ~Halted
    /\ workers[i].st = "called"
    /\ workers' = [workers EXCEPT ![i].st = "done"]
    /\ IF callOk /\ client.open
       THEN /\ client' = [client EXCEPT !.received = @ \cup {workers[i].out}]
            /\ UNCHANGED subscription
       ELSE /\ subscription' =
                  [subscription EXCEPT !.failed = @ \cup {workers[i].batch}]
            /\ UNCHANGED client
    /\ UNCHANGED <<dbVars, ret, inserted, pending>>

\* default: callError is 1, the goroutine gives its call up; then wg.Done()
WorkerAbandon(i) ==
    /\ ~Halted
    /\ workers[i].st = "called"
    /\ workers[i].batch \in subscription.failed
    /\ workers' = [workers EXCEPT ![i].st = "done"]
    /\ UNCHANGED <<dbVars, ret, inserted, subscription, client, pending>>

\* sendOldObjects from wg.Wait() on: the client is closed after an error,
\* and a full batch is followed by the next call of sendOldObjects
WaitReturns ==
    /\ ~Halted
    /\ subscription.pc = "wait"
    /\ wg(subscription.batch) = 0
    /\ client' = IF subscription.batch \in subscription.failed
                 THEN [client EXCEPT !.open = FALSE]
                 ELSE client
    /\ subscription' =
          IF subscription.size = rpcCounterObjectsSize
          THEN [subscription EXCEPT !.pc = "send",
                                    !.cursor = subscription.lastCount,
                                    !.batch = @ + 1]
          ELSE [subscription EXCEPT !.pc = "returned"]
    /\ UNCHANGED <<dbVars, ret, inserted, workers, pending>>

NextSub ==
    \/ \E data \in SubData : ServerInsert(data) /\ UNCHANGED notRpc
    \/ \E callOk \in BOOLEAN : EmitNewObject(callOk) /\ UNCHANGED notRpc
    \/ \E objType \in SubTypes, fromCounter \in SubCounters,
          restrictAuth \in {NoError, "authentication required"} :
           handleSubscribe(objType, fromCounter, restrictAuth)
           /\ UNCHANGED notRpc
    \/ sendOldObjects /\ UNCHANGED notRpc
    \/ \E i \in DOMAIN workers : WorkerStart(i) /\ UNCHANGED notRpc
    \/ \E i \in DOMAIN workers, callOk \in BOOLEAN :
           CallDone(i, callOk) /\ UNCHANGED notRpc
    \/ \E i \in DOMAIN workers : WorkerAbandon(i) /\ UNCHANGED notRpc
    \/ WaitReturns /\ UNCHANGED notRpc

SpecSub == Init /\ [][NextSub]_vars

\* --------------------------------------------------------------------------
\* RPC: sendObject
\* --------------------------------------------------------------------------
SendData ==
    { Obj(TRUE, "Msg", 9, 1), Obj(FALSE, "Msg", 9, 3),
      PubKeyObj(9, 4, TRUE, "simple", FALSE, "T2", "") }

\* the strings a client sends: encoded objects, and strings that are not
\* base64
SendStrings ==
    { EncodeToString(d) : d \in SendData }
        \cup { <<"not base64", d>> : d \in {Obj(TRUE, "Msg", 9, 1)} }

\* the stream numbers in the object headers
Streams == 1..2

\* base64.StdEncoding.DecodeString
DecodeString(in) ==
    IF in[1] = "base64" THEN [err |-> NoError, data |-> <<in[2]>>]
    ELSE [err |-> "base64 decode failed", data |-> <<>>]

\* the arguments of a SendObject request and what its checks meet: the
\* answer of restrictAuth, the string sent, the stream of the object header,
\* the verdict of pow.Check and the time
SendArgs(restrictAuth, in, stream, powOk, now) ==
    [restrictAuth |-> restrictAuth, in |-> in, stream |-> stream,
     powOk |-> powOk, now |-> now]

\* the checks of sendObject without the stream check
sendObjectChecksAnyStream(a) ==
    IF a.restrictAuth # NoError THEN a.restrictAuth
    ELSE IF DecodeString(a.in).err # NoError THEN "base64 decode failed"
    ELSE IF DecodeMsgObjectHeader(DecodeString(a.in).data[1]).err # NoError
    THEN "invalid object"
    ELSE IF a.now > DecodeMsgObjectHeader(DecodeString(a.in).data[1]).expiresTime
    THEN "object already expired"
    ELSE IF ~a.powOk THEN "invalid proof of work"
    ELSE NoError

\* sendObject up to the call of InsertObject: the error it returns, or nil
sendObjectChecks(a) ==
    IF a.restrictAuth # NoError THEN a.restrictAuth
    ELSE IF DecodeString(a.in).err # NoError THEN "base64 decode failed"
    ELSE IF DecodeMsgObjectHeader(DecodeString(a.in).data[1]).err # NoError
    THEN "invalid object"
    ELSE IF a.now > DecodeMsgObjectHeader(DecodeString(a.in).data[1]).expiresTime
    THEN "object already expired"
    ELSE IF a.stream # 1 THEN "invalid stream"
    ELSE IF ~a.powOk THEN "invalid proof of work"
    ELSE NoError

sendObject(a) ==
    LET request == Request("SendObject", a)
        e == sendObjectChecks(a)
    IN
    /\ ~Halted
    /\ IF e # NoError
       THEN /\ reply' = [request EXCEPT !.err = e]
            /\ UNCHANGED <<dbVars, ret, inserted, relay>>
       ELSE /\ InsertObject(DecodeString(a.in).data[1])
            /\ IF ret'.err # NoError
               THEN /\ reply' = [request EXCEPT
                          !.err = "failed to insert object into database",
                          !.counter = ret'.n]
                    /\ UNCHANGED relay
               ELSE /\ reply' = [request EXCEPT !.counter = ret'.n]
                    /\ relay' = Append(relay,
                          CalcInventoryHash(DecodeString(a.in).data[1]))
    /\ UNCHANGED clientState

NextSend ==
    \/ \E restrictAuth \in {NoError, "access denied"}, in \in SendStrings,
          stream \in Streams, powOk \in BOOLEAN, now \in Nows :
           sendObject(SendArgs(restrictAuth, in, stream, powOk, now))
           /\ UNCHANGED notSrv
    \/ Close /\ UNCHANGED envVars
    \/ \E hash \in { CalcInventoryHash(d) : d \in SendData } :
           ExistsObject(hash) /\ UNCHANGED envVars

SpecSend == Init /\ [][NextSend]_vars

\* --------------------------------------------------------------------------
\* Package memdb: CreateDB and OpenDB, and the instances they return
\* --------------------------------------------------------------------------
\* the struct MemDb: the fields of the instance the methods are called on
MemDb ==
    [objectsByHash |-> objectsByHash, pubKeyByTag |-> pubKeyByTag,
     msgCounter |-> msgCounter, broadcastCounter |-> broadcastCounter,
     pubKeyCounter |-> pubKeyCounter, getPubKeyCounter |-> getPubKeyCounter,
     unknownObjCounter |-> unknownObjCounter, closed |-> closed]

\* newMemDb: new maps and new counters
newMemDb ==
    [objectsByHash |-> EmptyMap, pubKeyByTag |-> EmptyMap,
     msgCounter |-> NewCounter, broadcastCounter |-> NewCounter,
     pubKeyCounter |-> NewCounter, getPubKeyCounter |-> NewCounter,
     unknownObjCounter |-> EmptyMap, closed |-> FALSE]

\* the methods are called on the instance db from now on
Receiver(db) ==
    /\ objectsByHash' = db.objectsByHash
    /\ pubKeyByTag' = db.pubKeyByTag
    /\ msgCounter' = db.msgCounter
    /\ broadcastCounter' = db.broadcastCounter
    /\ pubKeyCounter' = db.pubKeyCounter
    /\ getPubKeyCounter' = db.getPubKeyCounter
    /\ unknownObjCounter' = db.unknownObjCounter
    /\ closed' = db.closed

\* the caller turns to the handle of an instance made earlier
UseInstance(i) ==
    /\ ~Halted
    /\ i \in DOMAIN instances
    /\ Receiver(instances[i])
    /\ instances' = [instances EXCEPT ![i] = MemDb]
    /\ ret' = [Call("UseInstance") EXCEPT !.n = i]
    /\ UNCHANGED <<inserted, notInst>>

\* memdb.CreateDB: the caller holds the instance it returns, and keeps the
\* handles it had
memdbCreateDB(args) ==
    LET call == [Call("memdb.CreateDB") EXCEPT !.args = args]
    IN
    /\ ~Halted
    /\ IF parseArgs("CreateDB", args) # NoError
       THEN /\ ret' = [call EXCEPT !.err = parseArgs("CreateDB", args)]
            /\ UNCHANGED <<dbVars, instances>>
       ELSE /\ Len(instances) < MaxInstances
            /\ instances' = Append(instances, MemDb)
            /\ Receiver(newMemDb)
            /\ ret' = [call EXCEPT !.db = <<"MemDb">>]
    /\ UNCHANGED <<inserted, notInst>>

\* OpenDB that hands out the instance that exists
memdbOpenDBExisting(args) ==
    LET call == [Call("memdb.OpenDB") EXCEPT !.args = args]
    IN
    /\ ~Halted
    /\ ret' = IF parseArgs("OpenDB", args) # NoError
              THEN [call EXCEPT !.err = parseArgs("OpenDB", args)]
              ELSE [call EXCEPT !.db = <<"MemDb">>]
    /\ UNCHANGED <<dbVars, instances, inserted, notInst>>

\* memdb.OpenDB: parseArgs, then `return CreateDB()'
memdbOpenDB(args) ==
    LET call == [Call("memdb.OpenDB") EXCEPT !.args = args]
    IN
    /\ ~Halted
    /\ IF parseArgs("OpenDB", args) # NoError
       THEN /\ ret' = [call EXCEPT !.err = parseArgs("OpenDB", args)]
            /\ UNCHANGED <<dbVars, instances>>
       ELSE /\ Len(instances) < MaxInstances
            /\ instances' = Append(instances, MemDb)
            /\ Receiver(newMemDb)
            /\ ret' = [call EXCEPT !.db = <<"MemDb">>]
    /\ UNCHANGED <<inserted, notInst>>

InstData == { Obj(TRUE, "Msg", 2, 1), PubKeyObj(9, 4, TRUE, "simple", FALSE, "T2", "") }

NextInst ==
    \/ \E args \in ArgLists : memdbCreateDB(args)
    \/ \E args \in ArgLists : memdbOpenDB(args)
    \/ \E i \in 1..MaxInstances : UseInstance(i)
    \/ \E data \in InstData : InsertObject(data) /\ UNCHANGED envVars
    \/ \E hash \in { CalcInventoryHash(d) : d \in InstData } :
           ExistsObject(hash) /\ UNCHANGED envVars
    \/ \E objType \in {"Msg", "PubKey"} : GetCounter(objType) /\ UNCHANGED envVars
    \/ Close /\ UNCHANGED envVars

SpecInst == Init /\ [][NextInst]_vars

\* --------------------------------------------------------------------------
\* RPC: handleAuth
\* --------------------------------------------------------------------------
\* the user names and passwords a client sends; two pairs give the same login
Usernames == {"admin", "user", "user:x"}
Passwords == {"admin", "x", "x:x"}

RPCAuthParams(Username, Password) ==
    [Username |-> Username, Password |-> Password]

\* sha256.Sum256: equal digests for equal inputs only
Sum256(login) == <<"sha256", login>>

\* subtle.ConstantTimeCompare
ConstantTimeCompare(x, y) == IF x = y THEN 1 ELSE 0

\* s.limitauthsha and s.authsha: the digests of the logins the server is
\* configured with
ServerHashes == { Sum256(l) : l \in {"admin:admin", "user:x:x", "user:admin"} }

\* an Authenticate request and the server it reaches
AuthArgs(in, limitauthsha, authsha) ==
    [in |-> in, limitauthsha |-> limitauthsha, authsha |-> authsha]

\* handleAuth that checks for admin-level auth first
handleAuthAdminFirst(a) ==
    LET request == Request("Authenticate", a)
        authsha == Sum256(a.in.Username \o ":" \o a.in.Password)
    IN
    /\ ~Halted
    /\ reply.method = "Authenticate"
          => /\ a.limitauthsha = reply.args.limitauthsha
             /\ a.authsha = reply.args.authsha
    /\ IF ConstantTimeCompare(authsha, a.authsha) = 1
       THEN /\ clientState' = [isAuthenticated |-> TRUE, isAdmin |-> TRUE]
            /\ reply' = [request EXCEPT !.success = TRUE]
       ELSE IF ConstantTimeCompare(authsha, a.limitauthsha) = 1
       THEN /\ clientState' = [isAuthenticated |-> TRUE, isAdmin |-> FALSE]
            /\ reply' = [request EXCEPT !.success = TRUE]
       ELSE /\ reply' = [request EXCEPT !.success = FALSE]
            /\ UNCHANGED clientState
    /\ UNCHANGED <<dbVars, ret, inserted, relay>>

\* the hashes of the server do not change between the requests of a run
handleAuth(a) ==
    LET request == Request("Authenticate", a)
        authsha == Sum256(a.in.Username \o ":" \o a.in.Password)
    IN
    /\ ~Halted
    /\ reply.method = "Authenticate"
          => /\ a.limitauthsha = reply.args.limitauthsha
             /\ a.authsha = reply.args.authsha
    /\ IF ConstantTimeCompare(authsha, a.limitauthsha) = 1
       THEN /\ clientState' = [isAuthenticated |-> TRUE, isAdmin |-> FALSE]
            /\ reply' = [request EXCEPT !.success = TRUE]
       ELSE IF ConstantTimeCompare(authsha, a.authsha) = 1
       THEN /\ clientState' = [isAuthenticated |-> TRUE, isAdmin |-> TRUE]
            /\ reply' = [request EXCEPT !.success = TRUE]
       ELSE /\ reply' = [request EXCEPT !.success = FALSE]
            /\ UNCHANGED clientState
    /\ UNCHANGED <<dbVars, ret, inserted, relay>>

NextAuth ==
    \E Username \in Usernames, Password \in Passwords,
       limitauthsha \in ServerHashes, authsha \in ServerHashes :
        handleAuth(AuthArgs(RPCAuthParams(Username, Password),
                            limitauthsha, authsha))
        /\ UNCHANGED notSrv

SpecAuth == Init /\ [][NextAuth]_vars

\* ==========================================================================
\* Properties
\* ==========================================================================
\* the types that have a counter bucket in the current state
BucketTypes == IF closed THEN {} ELSE KnownTypes \cup DOMAIN unknownObjCounter

\* the elements of a sequence
Range(seq) == { seq[i] : i \in DOMAIN seq }

MsgA == Obj(TRUE, "Msg", 2, 1)
MsgB == Obj(TRUE, "Msg", 9, 2)

\* C1 (invariant I1): every hash stored in a counter bucket's ByCounter is a
\* key of the hash index, and no call ends in the fatal abort.
NoDanglingCounter ==
    /\ \A t \in BucketTypes :
         \A k \in DOMAIN getCounterMap(t).ByCounter :
            getCounterMap(t).ByCounter[k] \in DOMAIN objectsByHash
    /\ ret.err # panicMessage

\* C2 (counter monotonicity): the k-th successful InsertObject of a type
\* returns counter k, whatever removals and inserts of other types came
\* before it.
InsertReturnsOrdinal ==
    (ret.op = "InsertObject" /\ ret.err = NoError)
        => ret.n = inserted[ret.data[1].objType]

\* a second Msg insert that returned 2 after the first Msg had been removed
InsertAfterRemovalSeen ==
    /\ ret.op = "InsertObject"
    /\ ret.err = NoError
    /\ ret.data[1].objType = "Msg"
    /\ ret.n = 2
    /\ DOMAIN msgCounter.ByCounter = {2}

\* C3 (invariant I2): in every bucket the keys of ByCounter lie in
\* 1..CounterPos and no hash appears under two counters.
KeysBoundedAndHashesUnique ==
    \A t \in BucketTypes :
       LET c == getCounterMap(t)
       IN  /\ DOMAIN c.ByCounter \subseteq 1..c.CounterPos
           /\ \A j, k \in DOMAIN c.ByCounter :
                 c.ByCounter[j] = c.ByCounter[k] => j = k

\* the live counters of the type's bucket that a fetch from `counter' selects
Eligible(objType, counter) ==
    { k \in DOMAIN getCounterMap(objType).ByCounter : k >= counter }

\* C4 (pagination completeness): while the bucket is as it was when the
\* paging started, the concatenated batches list the live counters from 1 in
\* ascending order, repeating only the cursor object at a resumption and
\* passing over no live object, and once the last batch has come they list
\* every live object of the type.
PaginationComplete ==
    (/\ pager.active
     /\ ~closed
     /\ ret.err # panicMessage
     /\ getCounterMap(pager.objType) = pager.start)
    => /\ \A i \in 1..(Len(pager.got) - 1) :
            /\ pager.got[i] <= pager.got[i + 1]
            /\ pager.got[i] = pager.got[i + 1] => i \in pager.cuts
       /\ \A k \in Range(pager.got) :
            \A j \in Eligible(pager.objType, 1) :
               j < k => j \in Range(pager.got)
       /\ pager.done => Range(pager.got) = Eligible(pager.objType, 1)

\* C5: FetchObjectsFromCounter returns the objects of the min(maxCount, n)
\* smallest of the n live counters >= fromCounter; no live counter that is
\* >= fromCounter and smaller than a returned one is skipped.
FetchReturnsSmallest ==
    (ret.op = "FetchObjectsFromCounter" /\ ret.err = NoError)
    => LET eligible == Eligible(ret.objType, ret.counter)
       IN  /\ Len(ret.keys) =
                 IF ret.count < Cardinality(eligible) THEN ret.count
                 ELSE Cardinality(eligible)
           /\ \A k \in Range(ret.keys) :
                 \A j \in eligible : j < k => j \in Range(ret.keys)

ClosedStoreFailsClosed == [][closed => ret'.err = ErrDbClosed]_vars

\* every index released: the maps and the counter pointers are nil
Released ==
    /\ objectsByHash = NilMap
    /\ pubKeyByTag = NilMap
    /\ msgCounter = NilCounter
    /\ broadcastCounter = NilCounter
    /\ pubKeyCounter = NilCounter
    /\ getPubKeyCounter = NilCounter
    /\ unknownObjCounter = NilMap

\* C8: the first Close of an open store returns no error, sets closed and
\* releases every index; a Close of a closed store returns ErrDbClosed; and
\* no method reopens a closed store.
CloseOnceThenClosed ==
    [][/\ closed => closed'
       /\ (ret'.op = "Close" /\ ~closed)
             => (ret'.err = NoError /\ closed' /\ Released')
       /\ (ret'.op = "Close" /\ closed)
             => (ret'.err = ErrDbClosed /\ Released')]_vars

\* a store that held objects, closed, and a later Close refused
SecondCloseRefusedSeen ==
    /\ closed
    /\ ret.op = "Close"
    /\ ret.err = ErrDbClosed
    /\ TotalInserted = MaxInserts

\* the step is a successful removal that takes hash h out of the hash index:
\* a removal of h by hash or by counter, an expiration sweep, or a Close
RemovalOf(h) ==
    /\ ret'.err = NoError
    /\ \/ ret'.op \in {"RemoveObject", "RemoveObjectByCounter"}
          /\ ret'.hash = <<h>>
       \/ ret'.op = "RemoveExpiredObjects"
       \/ ret'.op \in {"Close", "RollbackClose"}

\* C9 (round trip): a successful InsertObject(o) returns the hash h of o and
\* files o under h; from then on, at every step that does not remove h, h
\* stays in the hash index with the same bytes, ExistsObject(h) answers
\* true and FetchObjectByHash(h) returns o.
InsertFetchRoundTrip ==
    [][/\ (ret'.op = "InsertObject" /\ ret'.err = NoError)
             => /\ ret'.hash = <<CalcInventoryHash(ret'.data[1])>>
                /\ ret'.hash[1] \in DOMAIN objectsByHash'
                /\ objectsByHash'[ret'.hash[1]] = ret'.data[1]
       /\ \A h \in DOMAIN objectsByHash :
             /\ CalcInventoryHash(objectsByHash[h]) = h
             /\ ~RemovalOf(h)
                   => /\ h \in DOMAIN objectsByHash'
                      /\ objectsByHash'[h] = objectsByHash[h]
             /\ (ret'.op = "ExistsObject" /\ ret'.hash = <<h>>)
                   => (ret'.err = NoError /\ ret'.exists)
             /\ (ret'.op = "FetchObjectByHash" /\ ret'.hash = <<h>>)
                   => (ret'.err = NoError /\ ret'.obj = <<objectsByHash[h]>>)]_vars

\* MsgA fetched by hash after a Broadcast was inserted and removed again
FetchedAfterOthersSeen ==
    /\ ret.op = "FetchObjectByHash"
    /\ ret.err = NoError
    /\ ret.hash = <<CalcInventoryHash(MsgA)>>
    /\ ret.obj = <<MsgA>>
    /\ inserted["Broadcast"] = 1
    /\ DOMAIN objectsByHash = {CalcInventoryHash(MsgA)}

\* the position of the type's bucket, 0 while the bucket does not exist yet
Position(objType) == getCounterMap(objType).CounterPos

CountersOf(objType, h) ==
    { k \in DOMAIN getCounterMap(objType).ByCounter :
        getCounterMap(objType).ByCounter[k] = h }

\* C11 (expiration sweep): when RemoveExpiredObjects returns on an open
\* store, every object that is not a PubKey and whose expiration time is
\* earlier than now - 3 hours is gone from the hash index and from its
\* counter bucket, and every other object is still in the hash index with
\* the counters it had.
SweepRemovesExactlyExpired ==
    [][(ret'.op = "RemoveExpiredObjects" /\ ret'.err = NoError)
         => \A h \in DOMAIN objectsByHash :
              \A o \in {objectsByHash[h]} :
                \A t \in {o.objType} :
                  IF t # "PubKey" /\ o.expires < ret'.now - 3
                  THEN /\ h \notin DOMAIN objectsByHash'
                       /\ CountersOf(t, h)' = {}
                  ELSE /\ h \in DOMAIN objectsByHash'
                       /\ objectsByHash'[h] = o
                       /\ CountersOf(t, h)' = CountersOf(t, h)]_vars

\* goroutine g is inside the section the mutex protects
InSection(g) == gor[g].pc \in {"body", "counter", "hash", "unlock"}

\* at most one goroutine is inside the section, and it holds the mutex
MutualExclusion ==
    \A g \in Goroutines :
       InSection(g) => /\ mu = g
                       /\ \A h \in Goroutines : InSection(h) => h = g

\* a call that has finished its body has returned, and left the indices, as
\* the same call run alone on the indices it found when it took the lock
SerialEffect ==
    \A g \in Goroutines :
       gor[g].pc = "unlock" =>
          LET snap == gor[g].snap
              call == gor[g].call
              hash == IF call.op = "InsertObject"
                      THEN CalcInventoryHash(call.data[1])
                      ELSE IF call.op = "RemoveObject" THEN call.hash[1]
                      ELSE <<>>
              found == call.counter \in DOMAIN snap.msgCounter.ByCounter
          IN  /\ ret.op = call.op
              /\ call.op = "InsertObject" =>
                   /\ ret.err = NoError
                   /\ ret.hash = <<hash>>
                   /\ ret.n = snap.msgCounter.CounterPos + 1
                   /\ objectsByHash = (hash :> call.data[1]) @@ snap.objectsByHash
                   /\ msgCounter = Insert(snap.msgCounter, hash)
              /\ call.op = "RemoveObject" =>
                   IF hash \in DOMAIN snap.objectsByHash
                   THEN /\ ret.err = NoError
                        /\ objectsByHash = Delete(snap.objectsByHash, hash)
                        /\ msgCounter.CounterPos = snap.msgCounter.CounterPos
                        /\ msgCounter.ByCounter \in
                              RemoveFirstMatch(snap.msgCounter.ByCounter, hash)
                   ELSE /\ ret.err = ErrNonexistentObject
                        /\ Snapshot = snap
              /\ call.op = "FetchObjectByCounter" =>
                   /\ Snapshot = snap
                   /\ ~found => ret.err = ErrNonexistentObject
                   /\ (found /\ ret.err = NoError) =>
                         ret.obj = <<snap.objectsByHash[
                                       snap.msgCounter.ByCounter[call.counter]]>>

\* C12 (mutual exclusion and atomicity): under every interleaving of calls
\* from several goroutines at most one call is inside the locked section,
\* every call returns and leaves the indices as if it had run alone, and
\* whenever the mutex is free the hash index and the counter buckets agree:
\* I1 (no dangling counter entry), I2 (keys within 1..position, no hash under
\* two counters) and I3 (position = counters ever assigned) hold.  I4 (no
\* duplicate key in the hash index) holds of any map.
ExclusiveAndAtomic ==
    /\ MutualExclusion
    /\ SerialEffect
    /\ mu = NoHolder =>
          /\ NoDanglingCounter
          /\ KeysBoundedAndHashesUnique
          /\ \A t \in BucketTypes : Position(t) = inserted[t]

\* the methods that only read
ReadOnlyOps ==
    {"ExistsObject", "FetchObjectByHash", "FetchObjectByCounter",
     "FetchObjectsFromCounter", "GetCounter"}

\* C13 (read-only operations): ExistsObject, FetchObjectByHash,
\* FetchObjectByCounter, FetchObjectsFromCounter and GetCounter leave the
\* hash index, the tag index, every bucket and the set of buckets as they
\* were, whatever object type they are called with.
ReadsChangeNothing ==
    [][ret'.op \in ReadOnlyOps
          => UNCHANGED <<objectsByHash, pubKeyByTag, counterVars>>]_vars

\* the arrays of the slices the store holds
StoredArrays ==
    { slices.byHash[h] : h \in DOMAIN slices.byHash }
    \cup { slices.byTag[t] : t \in DOMAIN slices.byTag }

\* C14 (stored objects are immutable, returned buffers are copies): a buffer
\* returned by FetchObjectByHash, FetchObjectByCounter or
\* FetchObjectsFromCounter shares no array with a stored slice, and the bytes
\* stored under a hash stay the same from its insertion to its removal,
\* whatever the caller writes into the buffers it was given.
FetchedBuffersAreCopies ==
    [][/\ buf'.fetched => buf'.addr \notin StoredArrays'
       /\ \A h \in DOMAIN objectsByHash :
             h \in DOMAIN objectsByHash' => objectsByHash'[h] = objectsByHash[h]]_vars

\* C15 (InsertObject does not alias its argument): after InsertObject(buf)
\* succeeded, a write of the caller into buf leaves the bytes stored under
\* the returned hash, and so what a later fetch of that hash returns, as they
\* were when the object was inserted.
InsertCopiesArgument ==
    [][(buf.insertedAs # <<>> /\ buf'.bytes # buf.bytes)
          => \A h \in DOMAIN objectsByHash :
                buf.insertedAs = <<h>>
                   => /\ h \in DOMAIN objectsByHash'
                      /\ objectsByHash'[h] = objectsByHash[h]]_vars

\* the caller inserted a buffer and overwrote it, and a later fetch of the
\* hash returned the bytes that were inserted
FetchedOriginalAfterWriteSeen ==
    /\ buf.insertedAs # <<>>
    /\ ret.op = "FetchObjectByHash"
    /\ ret.err = NoError
    /\ ret.hash = buf.insertedAs
    /\ CalcInventoryHash(ret.obj[1]) = ret.hash[1]
    /\ ret.obj # buf.bytes

\* C16 (tag/hash independence, P6): RemovePubKey changes only the tag index:
\* the hash index and all counter buckets stay as they were; and
\* RemoveObject, RemoveObjectByCounter and RemoveExpiredObjects leave the tag
\* index as it was.
TagAndHashIndependent ==
    [][/\ ret'.op = "RemovePubKey"
             => UNCHANGED <<objectsByHash, counterVars>>
       /\ ret'.op \in {"RemoveObject", "RemoveObjectByCounter",
                       "RemoveExpiredObjects"}
             => UNCHANGED pubKeyByTag]_vars

\* the one pubkey inserted is found by ExistsObject after its tag entry was
\* removed
ExistsAfterTagRemovedSeen ==
    /\ ret.op = "ExistsObject"
    /\ ret.exists
    /\ ret.hash = <<CalcInventoryHash(PubKeyA)>>
    /\ inserted["PubKey"] = 1
    /\ pubKeyByTag = EmptyMap

\* C17 (RemoveObjectByCounter): a call with a counter that is absent from the
\* type's bucket fails with ErrNonexistentObject and changes nothing; a call
\* with a live counter removes that bucket entry and the hash-index entry of
\* its object, and leaves the other counters of the bucket, its position and
\* the other buckets as they were; so after two inserts of a type and the
\* removal of counter 1, a fetch from counter 1 returns exactly the second
\* object with lastCounter 2.
RemoveByCounterExact ==
    [][/\ (ret'.op = "RemoveObjectByCounter" /\ ~closed)
             => \A t \in {ret'.objType}, c \in {ret'.counter} :
                  \A bucket \in {getCounterMap(t)} :
                    IF c \notin DOMAIN bucket.ByCounter
                    THEN /\ ret'.err = ErrNonexistentObject
                         /\ UNCHANGED dbVars
                    ELSE /\ ret'.err = NoError
                         /\ objectsByHash' =
                               Delete(objectsByHash, bucket.ByCounter[c])
                         /\ getCounterMap(t)' =
                               [bucket EXCEPT !.ByCounter = Delete(@, c)]
                         /\ \A u \in BucketTypes \ {t} :
                               getCounterMap(u)' = getCounterMap(u)
                         /\ UNCHANGED pubKeyByTag
       /\ (/\ ret'.op = "FetchObjectsFromCounter"
           /\ ret'.counter = 1
           /\ ret'.count >= 1
           /\ ~closed)
             => \A t \in {ret'.objType} :
                  (inserted[t] = 2 /\ DOMAIN getCounterMap(t).ByCounter = {2})
                     => /\ ret'.err = NoError
                        /\ ret'.keys = <<2>>
                        /\ ret'.n = 2
                        /\ \A h \in {getCounterMap(t).ByCounter[2]} :
                              /\ h \in DOMAIN objectsByHash
                              /\ ret'.objs = <<objectsByHash[h]>>]_vars

\* C18 (RemoveObject): a call with a hash that is absent from the hash index
\* fails with ErrNonexistentObject and changes nothing; a call with a hash
\* that is present succeeds and leaves the hash out of the hash index and
\* out of the bucket of the object's type; from then on ExistsObject of the
\* hash answers false and FetchObjectByHash and RemoveObject of it fail.
RemoveObjectExact ==
    [][/\ (ret'.op = "RemoveObject" /\ ~closed)
             => \A h \in {ret'.hash[1]} :
                  IF h \notin DOMAIN objectsByHash
                  THEN /\ ret'.err = ErrNonexistentObject
                       /\ UNCHANGED dbVars
                  ELSE \A t \in {objectsByHash[h].objType} :
                         /\ ret'.err = NoError
                         /\ h \notin DOMAIN objectsByHash'
                         /\ CountersOf(t, h)' = {}
       /\ (ret'.op = "ExistsObject" /\ ~closed)
             => ret'.exists = (ret'.hash[1] \in DOMAIN objectsByHash)
       /\ (ret'.op = "FetchObjectByHash" /\ ~closed
           /\ ret'.hash[1] \notin DOMAIN objectsByHash)
             => ret'.err = ErrNonexistentObject]_vars

\* the names of the registered drivers, in list order
DriverNames == [i \in 1..Len(driverList) |-> driverList[i].DbType]

\* C19 (driver registry): the list holds at most one driver per name, the
\* driver of a name is the instance of the first AddDBDriver call made with
\* that name, no call removes or replaces an entry (the list only grows at
\* its end), and SupportedDBs returns the names in the order of their
\* registration.
RegistryFirstWins ==
    [][/\ Len(driverList') >= Len(driverList)
       /\ SubSeq(driverList', 1, Len(driverList)) = driverList
       /\ \A i, j \in 1..Len(driverList') :
             driverList'[i].DbType = driverList'[j].DbType => i = j
       /\ DriverNames' = registered'.order
       /\ \A i \in 1..Len(driverList') :
             driverList'[i] = registered'.first[driverList'[i].DbType]
       /\ ret'.op = "SupportedDBs" => ret'.names = registered'.order]_vars

\* two drivers are registered, and an AddDBDriver call with the name of one
\* of them and other constructors was just made
SecondRegistrationIgnoredSeen ==
    /\ Len(driverList) = 2
    /\ ret.op = "AddDBDriver"
    /\ \E i \in 1..2 : /\ driverList[i].DbType = ret.dbtype
                       /\ <<driverList[i]>> # ret.args

\* C20 (CreateDB, OpenDB): with a name that was never registered both return
\* ErrDbUnknownType and no engine; with a registered name CreateDB returns
\* what the CreateDB constructor of the driver registered under that name
\* returns for the same arguments, and OpenDB what its OpenDB constructor
\* returns; neither changes the list of drivers.
CreateAndOpenDelegate ==
    [][ret'.op \in {"CreateDB", "OpenDB"}
          => /\ driverList' = driverList
             /\ IF ret'.dbtype \notin DOMAIN registered.first
                THEN ret'.err = ErrDbUnknownType /\ ret'.db = <<>>
                ELSE \A drv \in {registered.first[ret'.dbtype]} :
                       \A fn \in {IF ret'.op = "CreateDB" THEN drv.CreateDB
                                  ELSE drv.OpenDB} :
                         /\ ret'.db = CallDriver(fn, ret'.args).db
                         /\ ret'.err = CallDriver(fn, ret'.args).err]_vars

\* OpenDB("memdb", "path") refused by memdb.OpenDB, the second driver of the
\* list
OpenRefusedByMemdbSeen ==
    /\ ret.op = "OpenDB"
    /\ ret.dbtype = "memdb"
    /\ ret.args = <<"path">>
    /\ ret.err = "memdb.OpenDB does not accept any arguments"
    /\ ret.db = <<>>
    /\ Len(driverList) = 2
    /\ driverList[2].DbType = "memdb"

\* C21 (RollbackClose is Close): from every state, open or closed,
\* RollbackClose returns the error Close returns and leaves the state Close
\* leaves: on an open store no error, the store closed and every index
\* released; on a closed store ErrDbClosed and nothing changed.
RollbackCloseIsClose ==
    [][ret'.op \in {"Close", "RollbackClose"}
          => /\ ret'.err = IF closed THEN ErrDbClosed ELSE NoError
             /\ closed'
             /\ Released'
             /\ closed => UNCHANGED dbVars]_vars

\* a store that held objects and was closed by RollbackClose
RollbackClosedFilledStoreSeen ==
    /\ ret.op = "RollbackClose"
    /\ ret.err = NoError
    /\ closed
    /\ Released
    /\ TotalInserted = MaxInserts

\* C22 (Sync is a barrier): Sync on an open store returns no error and
\* changes no index and no counter, and when it returns no other goroutine
\* that took the store lock before it is still inside its method, so no
\* mutation that began earlier is half done.
SyncIsBarrier ==
    [][/\ (ret'.op = "Sync" /\ ret' # ret /\ ~closed)
            => (ret'.err = NoError /\ UNCHANGED <<dbVars, inserted>>)
       /\ \A g \in Goroutines :
            (gor[g].call.op = "Sync" /\ gor[g].pc = "unlock" /\ gor'[g].pc = "idle")
                => \A h \in Goroutines \ {g} : ~InSection(h)]_vars

\* Sync has run on a store holding an object while another goroutine waits
\* for the lock with an insert
SyncHeldBackInsertSeen ==
    \E g \in Goroutines, h \in Goroutines :
        /\ g # h
        /\ gor[g].call.op = "Sync"
        /\ gor[g].pc = "unlock"
        /\ ret.op = "Sync"
        /\ ret.err = NoError
        /\ gor[g].snap.objectsByHash # EmptyMap
        /\ gor[h].pc = "lock"
        /\ gor[h].call.op = "InsertObject"

CountersAreStableHandles ==
    [][\A t \in ObjectTypes, c \in 1..MaxInserts :
         \A b \in {getCounterMap(t).ByCounter}, pos \in {Position(t)} :
            /\ (c \in DOMAIN b /\ c \in DOMAIN getCounterMap(t)'.ByCounter)
                  => getCounterMap(t)'.ByCounter[c] = b[c]
            /\ (c <= pos /\ c \notin DOMAIN b)
                  => c \notin DOMAIN getCounterMap(t)'.ByCounter
            /\ (/\ ret'.op = "FetchObjectByCounter"
                /\ ret'.objType = t
                /\ ret'.counter = c)
                  => IF c \in DOMAIN b
                     THEN /\ ret'.err = NoError
                          /\ ret'.obj # <<>>
                          /\ CalcInventoryHash(ret'.obj[1]) = b[c]
                     ELSE ret'.err = ErrNonexistentObject]_vars

\* C25 (a failed insert changes nothing): InsertObject returns an error when
\* the header of the bytes cannot be decoded and, for a PubKey, when the
\* message cannot be decoded or no tag can be derived from it; an InsertObject
\* that returns an error leaves the hash index, the tag index, every bucket
\* and every position as they were, so no counter value is used up.
FailedInsertChangesNothing ==
    [][ret'.op = "InsertObject" =>
         \A data \in {ret'.data[1]} :
            /\ ~data.hdrOk => ret'.err # NoError
            /\ (/\ data.hdrOk
                /\ data.objType = "PubKey"
                /\ \/ ~data.decodeOk
                   \/ data.version \in {"simple", "extended"} /\ ~data.keysOk)
                  => ret'.err # NoError
            /\ ret'.err # NoError
                  => /\ ret'.hash = <<>>
                     /\ ret'.n = 0
                     /\ UNCHANGED <<dbVars, inserted>>]_vars

\* a PubKey without usable keys has been refused by a store holding objects
PubKeyRefusedSeen ==
    /\ ret.op = "InsertObject"
    /\ ret.data[1].objType = "PubKey"
    /\ ret.data[1].decodeOk
    /\ ~ret.data[1].keysOk
    /\ ret.err = ErrDecode
    /\ objectsByHash # EmptyMap
    /\ pubKeyByTag # EmptyMap

\* C26 (duplicate insert): an InsertObject of bytes whose hash is already in
\* the hash index does not fail with ErrDuplicateObject, it succeeds; the hash
\* index keeps its one entry for the hash, holding the same bytes, and the
\* rest of the store (the tag index, every bucket and every position) is as
\* it was before the duplicate insert.
DuplicateInsertKeepsStore ==
    [][\A data \in InsertData :
         (/\ CalcInventoryHash(data) \in DOMAIN objectsByHash
          /\ ret'.op = "InsertObject"
          /\ ret'.data = <<data>>
          /\ ret' # ret)
            => /\ ret'.err = NoError
               /\ objectsByHash' = objectsByHash
               /\ objectsByHash'[CalcInventoryHash(data)] = data
               /\ UNCHANGED <<pubKeyByTag, counterVars>>]_vars

\* C27 (tag index upsert): a successful InsertObject of a PubKey sets the
\* entry of its tag in the tag index to the bytes of that object and leaves
\* the entries of the other tags alone, so each tag has at most one entry,
\* that of the PubKey inserted last; a successful InsertObject of another
\* type leaves the tag index unchanged; RemovePubKey of a tag without an
\* entry fails with ErrNonexistentObject and changes nothing.
TagIndexUpsert ==
    [][/\ (ret'.op = "InsertObject" /\ ret'.err = NoError /\ ret' # ret)
            => \A data \in {ret'.data[1]} :
                 IF data.objType = "PubKey"
                 THEN \E tag \in Tags :
                        /\ tag = IF data.version = "encrypted"
                                 THEN data.tag ELSE data.addrTag
                        /\ DOMAIN pubKeyByTag' = DOMAIN pubKeyByTag \cup {tag}
                        /\ pubKeyByTag'[tag] = data
                        /\ \A u \in DOMAIN pubKeyByTag \ {tag} :
                              pubKeyByTag'[u] = pubKeyByTag[u]
                 ELSE UNCHANGED pubKeyByTag
       /\ (ret'.op = "RemovePubKey" /\ ~closed /\ ret' # ret
           /\ ret'.tag \notin DOMAIN pubKeyByTag)
            => (ret'.err = ErrNonexistentObject /\ UNCHANGED <<dbVars, inserted>>)
       /\ (ret'.op \notin {"InsertObject", "RemovePubKey"})
            => UNCHANGED pubKeyByTag]_vars

\* a second PubKey with the tag of the first has taken its place in the tag
\* index
TagEntryReplacedSeen ==
    /\ ret.op = "InsertObject"
    /\ ret.err = NoError
    /\ ret.data = <<PubKeyC>>
    /\ pubKeyByTag = ("T1" :> PubKeyC)
    /\ CalcInventoryHash(PubKeyA) \in DOMAIN objectsByHash
    /\ inserted["PubKey"] = 2

\* the types of the objects a step inserts or removes
TypesTouched ==
    CASE ret'.op = "InsertObject" /\ ret'.err = NoError ->
             { DecodeMsgObjectHeader(ret'.data[1]).objType }
      [] ret'.op = "RemoveObject" /\ ret'.err = NoError ->
             { DecodeMsgObjectHeader(objectsByHash[ret'.hash[1]]).objType }
      [] ret'.op = "RemoveObjectByCounter" /\ ret'.err = NoError ->
             { ret'.objType }
      [] ret'.op = "RemoveExpiredObjects" /\ ret'.err = NoError ->
             { DecodeMsgObjectHeader(objectsByHash[h]).objType :
                 h \in DOMAIN objectsByHash \ DOMAIN objectsByHash' }
      [] OTHER -> ObjectTypes

\* C28 (per-type counter isolation): a successful InsertObject of an object
\* of type A, and a successful removal of objects of type A (by hash, by
\* counter or by the sweep), change the bucket of type A only: the counter
\* entries and the position of every other type, and the set of unknown types
\* that have a bucket, are as before; the counter an insert returns is one
\* more than the position of its own type, whatever the other buckets hold.
PerTypeIsolation ==
    [][/\ \A u \in ObjectTypes \ TypesTouched :
             /\ \A b \in {getCounterMap(u)} : getCounterMap(u)' = b
             /\ \A had \in {u \in DOMAIN unknownObjCounter} :
                   (u \in DOMAIN unknownObjCounter') = had
       /\ (ret'.op = "InsertObject" /\ ret'.err = NoError /\ ret' # ret)
             => \A t \in TypesTouched :
                  \A pos \in {Position(t)} : ret'.n = pos + 1]_vars

\* a first Broadcast has been given counter 1 by a store whose Msg bucket
\* already has an entry
OtherTypeStartsAtOneSeen ==
    /\ ret.op = "InsertObject"
    /\ ret.err = NoError
    /\ DecodeMsgObjectHeader(ret.data[1]).objType = "Broadcast"
    /\ ret.n = 1
    /\ msgCounter.CounterPos = 1
    /\ DOMAIN msgCounter.ByCounter = {1}

Subscribed ==
    { objectsByHash[getCounterMap(subscription.objType).ByCounter[c]] :
        c \in { k \in DOMAIN getCounterMap(subscription.objType).ByCounter :
                  k >= subscription.fromCounter } }

\* C30 (subscription delivers at least once): once handleSubscribe has
\* returned without error to a client that is still connected, every stored
\* object of the subscribed type with a counter >= fromCounter has been
\* received by the client, from the backlog or from the new-object event,
\* or its new-object event is about to be emitted.
DeliveredAtLeastOnce ==
    (/\ subscription.pc = "returned"
     /\ subscription.err = NoError
     /\ client.open)
        => \A obj \in Subscribed :
              \/ \E r \in client.received : r.Object = EncodeToString(obj)
              \/ /\ pending # <<>>
                 /\ pending[1].out.Object = EncodeToString(obj)

\* C31 (sendOldObjects terminates): while nothing is inserted into or removed
\* from the bucket, every batch that is followed by another call moves the
\* cursor forward, for every batch size >= 1; the cursor is bounded by the
\* position of the bucket, so the recursion ends after finitely many batches.
SendOldObjectsTerminates ==
    [][(/\ pager.active
        /\ pager'.calls = pager.calls + 1
        /\ pager.start = getCounterMap(pager.objType)
        /\ ~pager'.done)
          => pager'.from > pager.from]_vars

\* C32 (sendOldObjects waits for its batch): sendOldObjects passes wg.Wait()
\* only when every goroutine of the current batch has run and has either
\* seen its client call complete or given it up after a recorded failure;
\* no goroutine of the batch is still to run or still waiting for its call.
WaitCoversBatch ==
    [][(subscription.pc = "wait" /\ subscription'.pc # "wait")
          => \A i \in DOMAIN workers :
                workers[i].batch = subscription.batch
                   => workers[i].st = "done"]_vars

\* a SendObject request passes every check made before the insert
SendObjectPassed(a) ==
    /\ a.restrictAuth = NoError
    /\ a.in[1] = "base64"
    /\ a.in[2].hdrOk
    /\ a.now <= a.in[2].expires
    /\ a.stream = 1
    /\ a.powOk

\* C33 (sendObject ordering): sendObject calls InsertObject only for a
\* request of an authenticated client whose payload is base64, whose object
\* header decodes, which has not expired, is of stream 1 and has a valid
\* proof of work; when one of these fails the request is refused and neither
\* the store nor the relay is touched; the inventory hash is handed to the
\* relay only when InsertObject has returned without error.
SendObjectOrdering ==
    [][(reply'.method = "SendObject" /\ reply' # reply) =>
         \A a \in {reply'.args} :
            /\ ~SendObjectPassed(a)
                  => /\ reply'.err # NoError
                     /\ UNCHANGED <<dbVars, ret, inserted, relay>>
            /\ ret' # ret
                  => /\ SendObjectPassed(a)
                     /\ ret'.op = "InsertObject"
                     /\ ret'.data = <<a.in[2]>>
            /\ relay' # relay
                  => /\ ret' # ret
                     /\ ret'.err = NoError
                     /\ reply'.err = NoError
                     /\ reply'.counter = ret'.n
                     /\ relay' = Append(relay, CalcInventoryHash(a.in[2]))
            /\ (ret' # ret /\ ret'.err # NoError)
                  => (reply'.err # NoError /\ UNCHANGED relay)]_vars

\* an object has been stored and advertised after requests for it were
\* refused, and an insert that failed was not advertised
SentAfterRefusalsSeen ==
    /\ reply.method = "SendObject"
    /\ reply.err = "failed to insert object into database"
    /\ ret.op = "InsertObject"
    /\ ret.err # NoError
    /\ Len(relay) = 1
    /\ relay[1] \in DOMAIN objectsByHash

\* C34 (no deadlock): under a fair scheduler and fair lock acquisition every
\* call of a store method returns, with its result or its error, unless the
\* process has been halted by the fatal abort; the mutex, once taken, is
\* always released again, also by a call that aborts; so no goroutine waits
\* for the mutex without end.
NoDeadlock ==
    /\ \A g \in Goroutines :
          (gor[g].pc # "idle") ~> (gor[g].pc = "idle" \/ Halted)
    /\ (mu # NoHolder) ~> (mu = NoHolder)

\* a call has aborted and released the mutex while another goroutine was
\* waiting for it
AbortReleasedLockSeen ==
    /\ Halted
    /\ mu = NoHolder
    /\ \E g \in Goroutines : gor[g].pc = "lock"

\* C35 (volatile, independent instances): memdb's CreateDB and OpenDB called
\* with an argument return an error and no engine and change nothing; called
\* without arguments each returns a new instance that is open and empty (no
\* object, no tag, every counter 0, no counter of an unknown type), whatever
\* the instances made before hold and whether they are closed or not, and
\* leaves those instances as they were; a method called on one instance
\* leaves the others as they were.
InstancesIndependent ==
    [][/\ ret'.op \in {"memdb.CreateDB", "memdb.OpenDB"} =>
             IF Len(ret'.args) # 0
             THEN /\ ret'.err # NoError
                  /\ ret'.db = <<>>
                  /\ UNCHANGED <<dbVars, instances>>
             ELSE /\ ret'.err = NoError
                  /\ ret'.db # <<>>
                  /\ closed' = FALSE
                  /\ DOMAIN objectsByHash' = {}
                  /\ DOMAIN pubKeyByTag' = {}
                  /\ DOMAIN unknownObjCounter' = {}
                  /\ \A t \in KnownTypes :
                        /\ getCounterMap(t)'.CounterPos = 0
                        /\ DOMAIN getCounterMap(t)'.ByCounter = {}
                  /\ instances' = Append(instances, MemDb)
       /\ ret'.op \notin {"memdb.CreateDB", "memdb.OpenDB", "UseInstance"}
             => UNCHANGED instances]_vars

\* OpenDB has returned an empty instance while the caller holds an open
\* instance with an object and a closed one
OpenedBesideFilledSeen ==
    /\ ret.op = "memdb.OpenDB"
    /\ ret.err = NoError
    /\ DOMAIN objectsByHash = {}
    /\ \E i \in DOMAIN instances :
          ~instances[i].closed /\ DOMAIN instances[i].objectsByHash # {}
    /\ \E i \in DOMAIN instances : instances[i].closed

\* C36 (backlog counters): every backlog object that sendOldObjects hands to
\* a goroutine for the client carries in Counter the counter under which the
\* object is stored in the bucket of its type.
BacklogCarriesCounter ==
    \A i \in DOMAIN workers :
       \A bucket \in {getCounterMap(subscription.objType).ByCounter} :
          /\ workers[i].out.Counter \in DOMAIN bucket
          /\ bucket[workers[i].out.Counter]
                = CalcInventoryHash(workers[i].out.Object[2])

\* C37 (failed batch): when a client call of a backlog batch has failed and
\* every goroutine of the batch has finished, sendOldObjects closes the
\* client and returns without fetching a further batch for that client.
FailedBatchEndsBacklog ==
    [][(/\ subscription.pc = "wait"
        /\ subscription'.pc # "wait"
        /\ subscription.batch \in subscription.failed
        /\ \A i \in DOMAIN workers :
              workers[i].batch = subscription.batch => workers[i].st = "done")
          => /\ ~client'.open
             /\ subscription'.pc = "returned"]_vars

\* C38 (authentication state): an Authenticate call reports success exactly
\* when the SHA-256 of username:password equals the limited-user hash or the
\* admin hash; a login that equals the limited-user hash leaves the client
\* authenticated and not admin, also when it equals the admin hash; after
\* every call a client marked admin is marked authenticated.
AuthStateSound ==
    [][(reply'.method = "Authenticate" /\ reply' # reply) =>
         \A a \in {reply'.args} :
          \A sha \in {Sum256(a.in.Username \o ":" \o a.in.Password)} :
            /\ reply'.success <=> (sha = a.limitauthsha \/ sha = a.authsha)
            /\ sha = a.limitauthsha
                  => (clientState'.isAuthenticated /\ ~clientState'.isAdmin)
            /\ (sha = a.authsha /\ sha # a.limitauthsha)
                  => (clientState'.isAuthenticated /\ clientState'.isAdmin)
            /\ clientState'.isAdmin => clientState'.isAuthenticated
            /\ reply'.err = NoError]_vars

\* a login that equals both hashes of the server has given a limited
\* session
LimitedWinsSeen ==
    /\ reply.method = "Authenticate"
    /\ reply.success
    /\ reply.args.limitauthsha = reply.args.authsha
    /\ reply.args.in.Username = "user:x"
    /\ clientState.isAuthenticated
    /\ ~clientState.isAdmin

\* C39 (failed authentication): after an Authenticate call that reports
\* success = false the client is neither authenticated nor admin.
FailedAuthLeavesNoPrivilege ==
    (reply.method = "Authenticate" /\ ~reply.success)
       => (~clientState.isAuthenticated /\ ~clientState.isAdmin)

====
